---- MODULE Spec2Model ----
(***************************************************************************)
(* DXCC Analyzer Pro: the log analysis engine of DXCCAnalyzer.jsx.         *)
(* Texts are sequences of one-character strings, so that toUpperCase,      *)
(* toLowerCase, trim, startsWith and includes are computed, not assumed.   *)
(* A QSO is a record holding only the fields the ADIF parser stored; a     *)
(* field that is absent reads as Undefined.                                *)
(***************************************************************************)
EXTENDS Integers, Sequences, FiniteSets, TLC

\* ------------------------------------------------------------------ bounds
MaxQsos == 3
MaxFilterQsos == 2
MaxModeLen == 4
MaxPieces == 3

\* ------------------------------------------------------------ text helpers
LowerChars == <<"a","b","c","d","e","f","g","h","i","j","k","l","m","n","o","p","q","r","s","t","u","v","w","x","y","z">>
UpperChars == <<"A","B","C","D","E","F","G","H","I","J","K","L","M","N","O","P","Q","R","S","T","U","V","W","X","Y","Z">>

\* JavaScript's undefined: the value of a field the record does not carry.
Undefined == << "undefined" >>

\* JavaScript truthiness of a text: undefined and '' are falsy.
Truthy(v) == v # Undefined /\ v # << >>

\* The letters toUpperCase and toLowerCase change, as lookup tables.
UpperOf == [c \in { LowerChars[i] : i \in 1..26 } |->
              UpperChars[CHOOSE i \in 1..26 : LowerChars[i] = c]]

LowerOf == [c \in { UpperChars[i] : i \in 1..26 } |->
              LowerChars[CHOOSE i \in 1..26 : UpperChars[i] = c]]

ToUpperChar(c) == IF c \in DOMAIN UpperOf THEN UpperOf[c] ELSE c

ToLowerChar(c) == IF c \in DOMAIN LowerOf THEN LowerOf[c] ELSE c

toUpperCase(s) == [i \in 1..Len(s) |-> ToUpperChar(s[i])]

toLowerCase(s) == [i \in 1..Len(s) |-> ToLowerChar(s[i])]

RECURSIVE trimStart(_)
trimStart(s) == IF s # << >> /\ Head(s) = " " THEN trimStart(Tail(s)) ELSE s

RECURSIVE trimEnd(_)
trimEnd(s) ==
  IF s # << >> /\ s[Len(s)] = " " THEN trimEnd(SubSeq(s, 1, Len(s) - 1)) ELSE s

trim(s) == trimEnd(trimStart(s))

startsWith(s, p) == Len(p) <= Len(s) /\ SubSeq(s, 1, Len(p)) = p

includes(s, p) ==
  \E i \in 1..(Len(s) - Len(p) + 1) : SubSeq(s, i, i + Len(p) - 1) = p

\* qso[field]: the stored text, or undefined when the field is absent.
Get(qso, f) == IF f \in DOMAIN qso THEN qso[f] ELSE Undefined

\* ['Y', 'V'].includes(value?.toUpperCase())
isYV(v) == v # Undefined /\ toUpperCase(v) \in { <<"Y">>, <<"V">> }

\* --------------------------------------------------------------- constants
BANDS ==
  << <<"1","6","0","m">>, <<"8","0","m">>, <<"4","0","m">>, <<"3","0","m">>,
     <<"2","0","m">>, <<"1","7","m">>, <<"1","5","m">>, <<"1","2","m">>,
     <<"1","0","m">>, <<"6","m">> >>

BandSet == { BANDS[i] : i \in 1..Len(BANDS) }

MODE_CATEGORIES ==
  [ ssb |-> << <<"S","S","B">>, <<"U","S","B">>, <<"L","S","B">>, <<"A","M">> >>,
    cw |-> << <<"C","W">> >>,
    digital |-> <<
       <<"F","T","8">>, <<"F","T","4">>, <<"J","T","6","5">>,
       <<"J","T","9">>, <<"J","T","4">>, <<"W","S","P","R">>,
       <<"Q","6","5">>, <<"R","T","T","Y">>, <<"P","S","K">>,
       <<"P","S","K","3","1">>, <<"P","S","K","6","3">>, <<"P","S","K","1","2","5">>,
       <<"Q","P","S","K">>, <<"B","P","S","K">>, <<"M","F","S","K">>,
       <<"O","L","I","V","I","A">>, <<"C","O","N","T","E","S","T","I","A">>, <<"H","E","L","L">>,
       <<"M","T","6","3">>, <<"D","O","M","I","N","O">>, <<"T","H","R","O","B">>,
       <<"V","A","R","A">>, <<"W","I","N","M","O","R">>, <<"A","R","D","O","P">>,
       <<"P","A","C","T","O","R">>, <<"P","A","C","K","E","T">>, <<"A","P","R","S">>,
       <<"A","X","2","5">>, <<"F","S","K">>, <<"A","F","S","K">> >> ]

Platforms == {"lotw", "eqsl", "qrz", "qsl"}

\* The ADIF fields that feed each platform.
PlatformFields ==
  [ lotw |-> {"LOTW_QSL_RCVD"},
    eqsl |-> {"EQSL_QSL_RCVD"},
    qsl |-> {"QSL_RCVD"},
    qrz |-> {"QRZCOM_QSL_RCVD", "QRZ_QSL_RCVD", "QRZCOM_QSO_DOWNLOAD_STATUS"} ]

\* ------------------------------------------------------------- classifiers
categorizeModeStrict(mode) ==
  IF ~Truthy(mode) THEN "unknown"
  ELSE LET upperMode == trim(toUpperCase(mode))
           digital == MODE_CATEGORIES.digital
           ssb == MODE_CATEGORIES.ssb
       IN  IF \E i \in 1..Len(digital) :
                \/ upperMode = digital[i]
                \/ startsWith(upperMode, digital[i] \o <<" ">>)
           THEN "digital"
           ELSE IF upperMode = <<"C","W">> \/ startsWith(upperMode, <<"C","W"," ">>)
           THEN "cw"
           ELSE IF \E i \in 1..Len(ssb) :
                     \/ upperMode = ssb[i]
                     \/ startsWith(upperMode, ssb[i] \o <<" ">>)
           THEN "ssb"
           ELSE "unknown"

categorizeMode(mode) ==
  IF ~Truthy(mode) THEN "unknown"
  ELSE LET upperMode == trim(toUpperCase(mode))
           digital == MODE_CATEGORIES.digital
           ssb == MODE_CATEGORIES.ssb
       IN  IF \E i \in 1..Len(digital) :
                \/ upperMode = digital[i]
                \/ startsWith(upperMode, digital[i] \o <<" ">>)
                \/ includes(upperMode, digital[i])
           THEN "digital"
           ELSE IF upperMode = <<"C","W">> \/ startsWith(upperMode, <<"C","W"," ">>)
           THEN "cw"
           ELSE IF \E i \in 1..Len(ssb) :
                     \/ upperMode = ssb[i]
                     \/ startsWith(upperMode, ssb[i] \o <<" ">>)
           THEN "ssb"
           ELSE "unknown"

confirmFields ==
  { "LOTW_QSL_RCVD", "EQSL_QSL_RCVD", "QSL_RCVD",
    "QRZCOM_QSL_RCVD", "QRZ_QSL_RCVD", "QRZCOM_QSO_DOWNLOAD_STATUS" }

isConfirmedWithUpload(qso) ==
  \E field \in confirmFields \cup {"QRZCOM_QSO_UPLOAD_STATUS"} : isYV(Get(qso, field))

isConfirmed(qso) == \E field \in confirmFields : isYV(Get(qso, field))

\* ------------------------------------------------------------ lookup table
\* The static entity table behind lookupDXCC: identifier -> name, continent
\* and deleted flag.  Three entries stand for the table: two active entities
\* and one deleted one.
DXCC_ENTITIES ==
  [ id \in { <<"2","9","1">>, <<"5">>, <<"2","2","9">> } |->
      IF id = <<"2","9","1">>
      THEN [name |-> <<"U","S","A">>, cont |-> <<"N","A">>, deleted |-> FALSE]
      ELSE IF id = <<"5">>
      THEN [name |-> <<"A","l","a","n","d">>, cont |-> <<"E","U">>, deleted |-> FALSE]
      ELSE [name |-> <<"G","D","R">>, cont |-> <<"E","U">>, deleted |-> TRUE] ]

\* dxccLookup?.name, dxccLookup?.cont, dxccLookup?.deleted
lookupName(dxccId) ==
  IF dxccId \in DOMAIN DXCC_ENTITIES THEN DXCC_ENTITIES[dxccId].name ELSE Undefined

lookupCont(dxccId) ==
  IF dxccId \in DOMAIN DXCC_ENTITIES THEN DXCC_ENTITIES[dxccId].cont ELSE Undefined

lookupDeleted(dxccId) ==
  dxccId \in DOMAIN DXCC_ENTITIES /\ DXCC_ENTITIES[dxccId].deleted

\* -------------------------------------------------------------- analyzeQSOs
Unknown == <<"U","n","k","n","o","w","n">>

\* a || b || c on texts
Or3(a, b, c) == IF Truthy(a) THEN a ELSE IF Truthy(b) THEN b ELSE c

\* The aggregate created on first sight of an identifier.
NewEntry(country, continent, deleted) ==
  [ country |-> country,
    cont |-> continent,
    deleted |-> deleted,
    total |-> 0,
    lotw |-> FALSE, eqsl |-> FALSE, qrz |-> FALSE, qsl |-> FALSE,
    bands |-> [b \in BandSet |-> "null"],
    bandQsos |-> [b \in BandSet |-> 0],
    bandConfirmations |-> [b \in BandSet |-> [p \in Platforms |-> FALSE]],
    platformQsos |-> [p \in Platforms |-> 0],
    bandPlatformQsos |-> [b \in BandSet |-> [p \in Platforms |-> 0]] ]

\* isLotw, isEqsl, isQsl, isQrz of one record
isPlatformYOnly(qso, p) ==
  IF p = "qrz"
  THEN \E f \in PlatformFields[p] : isYV(Get(qso, f))
  ELSE \E f \in PlatformFields[p] :
         Get(qso, f) # Undefined /\ toUpperCase(Get(qso, f)) = <<"Y">>

isPlatform(qso, p) == \E f \in PlatformFields[p] : isYV(Get(qso, f))

\* band && BANDS.includes(band.toLowerCase())
bandRecognized(band) == Truthy(band) /\ toLowerCase(band) \in BandSet

\* The new status of a band after one more contact on it.
nextBandStatusLastWins(currentStatus, confirmed) ==
  IF confirmed THEN "C" ELSE "W"

nextBandStatusFirstWins(currentStatus, confirmed) ==
  IF currentStatus # "null" THEN currentStatus
  ELSE IF confirmed THEN "C" ELSE "W"

nextBandStatus(currentStatus, confirmed) ==
  IF confirmed THEN "C"
  ELSE IF currentStatus = "null" THEN "W"
  ELSE currentStatus

\* const continent = qso.CONT || dxccLookup?.cont || ''
resolveContinent(qso, dxccId) ==
  Or3(Get(qso, "CONT"), lookupCont(dxccId), << >>)

\* const country = qso.COUNTRY || dxccLookup?.name || 'Unknown'
resolveCountryLookupFirst(qso, dxccId) ==
  Or3(lookupName(dxccId), Get(qso, "COUNTRY"), Unknown)

resolveCountry(qso, dxccId) ==
  Or3(Get(qso, "COUNTRY"), lookupName(dxccId), Unknown)

\* The entry of dxccId after the whole-entity part of the loop body.
updateEntityBandOnly(entry, qso) ==
  [ entry EXCEPT
      !.total = IF bandRecognized(Get(qso, "BAND")) THEN @ + 1 ELSE @,
      !.lotw = @ \/ isPlatform(qso, "lotw"),
      !.eqsl = @ \/ isPlatform(qso, "eqsl"),
      !.qsl = @ \/ isPlatform(qso, "qsl"),
      !.qrz = @ \/ isPlatform(qso, "qrz"),
      !.platformQsos =
          [p \in Platforms |-> IF isPlatform(qso, p) THEN @[p] + 1 ELSE @[p]] ]

updateEntity(entry, qso) ==
  [ entry EXCEPT
      !.total = @ + 1,
      !.lotw = @ \/ isPlatform(qso, "lotw"),
      !.eqsl = @ \/ isPlatform(qso, "eqsl"),
      !.qsl = @ \/ isPlatform(qso, "qsl"),
      !.qrz = @ \/ isPlatform(qso, "qrz"),
      !.platformQsos =
          [p \in Platforms |-> IF isPlatform(qso, p) THEN @[p] + 1 ELSE @[p]] ]

\* The entry of dxccId after the per-band part of the loop body.
updateBand(entry, qso) ==
  IF bandRecognized(Get(qso, "BAND"))
  THEN LET normalizedBand == toLowerCase(Get(qso, "BAND"))
           currentStatus == entry.bands[normalizedBand]
       IN  [ entry EXCEPT
               !.bandQsos[normalizedBand] = @ + 1,
               !.bands[normalizedBand] = nextBandStatus(currentStatus, isConfirmed(qso)),
               !.bandConfirmations[normalizedBand] =
                   [p \in Platforms |-> @[p] \/ isPlatform(qso, p)],
               !.bandPlatformQsos[normalizedBand] =
                   [p \in Platforms |-> IF isPlatform(qso, p) THEN @[p] + 1 ELSE @[p]] ]
  ELSE entry

\* One iteration of filteredQsos.forEach.
foldQsoCountAll(data, qso) ==
  LET dxccId == IF Truthy(Get(qso, "DXCC")) THEN qso.DXCC ELSE << >>
      entry == IF dxccId \in DOMAIN data THEN data[dxccId]
               ELSE NewEntry(resolveCountry(qso, dxccId),
                             resolveContinent(qso, dxccId),
                             lookupDeleted(dxccId))
  IN  [ k \in DOMAIN data \cup {dxccId} |->
          IF k = dxccId THEN updateBand(updateEntity(entry, qso), qso)
          ELSE data[k] ]

foldQso(data, qso) ==
  IF ~Truthy(Get(qso, "DXCC")) THEN data
  ELSE LET dxccId == qso.DXCC
           entry == IF dxccId \in DOMAIN data THEN data[dxccId]
                    ELSE NewEntry(resolveCountry(qso, dxccId),
                                  resolveContinent(qso, dxccId),
                                  lookupDeleted(dxccId))
       IN  [ k \in DOMAIN data \cup {dxccId} |->
               IF k = dxccId THEN updateBand(updateEntity(entry, qso), qso)
               ELSE data[k] ]

\* The resolved callsign of a record, upper-cased.
resolvedCallOperatorFirst(qso) ==
  toUpperCase(Or3(Get(qso, "OPERATOR"), Get(qso, "STATION_CALLSIGN"), << >>))

resolvedCall(qso) ==
  toUpperCase(Or3(Get(qso, "STATION_CALLSIGN"), Get(qso, "OPERATOR"), << >>))

\* The two pre-aggregation filters of analyzeQSOs as one predicate.
passesPreFilters(qso, modeFilter, operatorFilter) ==
  /\ modeFilter = "all" \/ categorizeMode(Get(qso, "MODE")) = modeFilter
  /\ operatorFilter = <<"a","l","l">> \/ resolvedCall(qso) = operatorFilter

RECURSIVE SelectSeqBy(_, _, _)
SelectSeqBy(qsos, modeFilter, operatorFilter) ==
  IF qsos = << >> THEN << >>
  ELSE IF passesPreFilters(Head(qsos), modeFilter, operatorFilter)
       THEN <<Head(qsos)>> \o SelectSeqBy(Tail(qsos), modeFilter, operatorFilter)
       ELSE SelectSeqBy(Tail(qsos), modeFilter, operatorFilter)

\* analyzeQSOs as a function: filter, then fold from the empty object.
RECURSIVE foldAll(_, _)
foldAll(data, qsos) ==
  IF qsos = << >> THEN data ELSE foldAll(foldQso(data, Head(qsos)), Tail(qsos))

EmptyData == [k \in {} |-> 0]

analyzeQSOs(qsos, modeFilter, operatorFilter) ==
  foldAll(EmptyData, SelectSeqBy(qsos, modeFilter, operatorFilter))

\* ------------------------------------------------------------------- state
VARIABLES
  logData,        \* logData.qsos: the parsed records of the loaded file
  filterMode,     \* 'all', 'ssb', 'cw', 'digital'
  filterOperator, \* 'all' or an upper-cased callsign
  pc,             \* position of the running analyzeQSOs call
  filteredQsos,   \* analyzeQSOs: the records that passed the pre-filters
  pos,            \* analyzeQSOs: number of records forEach has visited
  dxccData,       \* analyzeQSOs: the aggregates built so far
  mode,           \* categorizeMode: the argument
  category,       \* categorizeMode: the returned category
  loaded,         \* logData !== null
  fileName,       \* name of the file chosen last
  pendingReads,   \* files whose FileReader has not yet fired onload
  analyzedData,   \* useMemo cache of analyzeQSOs(logData.qsos, ...)
  searchTerm,
  filterStatus,   \* 'all', 'confirmed', 'worked'
  filterContinent,
  filterConfirmation, \* 'all' or a platform
  filterBand,     \* 'all' or a band
  sortColumn,
  sortDirection,
  currentPage,
  showCharts,
  itemsPerPage,   \* 0 shows all rows
  filterDateFrom, \* date range filter: first day, or undefined
  filterDateTo,   \* date range filter: last day, or undefined
  content,        \* parseADIF: the text handed to it
  records,        \* parseADIF: the text split at the record ends
  currentQso,     \* parseADIF: qso, the record under construction
  lastIndex       \* parseADIF: where the tag pattern resumes its search

vars == << logData, filterMode, filterOperator, pc, filteredQsos, pos,
           dxccData, mode, category, loaded, fileName, pendingReads,
           analyzedData, searchTerm, filterStatus, filterContinent,
           filterConfirmation, filterBand, sortColumn, sortDirection,
           currentPage, showCharts, itemsPerPage, filterDateFrom,
           filterDateTo, content, records, currentQso,
           lastIndex >>

fileVars == << loaded, fileName, pendingReads >>

postFilterVars == << searchTerm, filterStatus, filterContinent,
                     filterConfirmation, filterBand >>

sortVars == << sortColumn, sortDirection >>

pageVars == << currentPage, itemsPerPage >>

dateVars == << filterDateFrom, filterDateTo >>

parseVars == << content, records, currentQso, lastIndex >>

viewVars == << fileVars, analyzedData, postFilterVars, sortVars, pageVars,
               showCharts, dateVars, parseVars >>

callVars == << pc, filteredQsos, pos, dxccData >>

modeVars == << mode, category >>

foldVars == << logData, filterMode, filterOperator, pc, filteredQsos, pos, dxccData >>

\* ------------------------------------------------------------------ inputs
All == <<"a","l","l">>

EmptyRec == [k \in {} |-> << >>]

\* A record holding field f, unless the value is undefined.
Field(f, v) == IF v = Undefined THEN EmptyRec ELSE [k \in {f} |-> v]

BoundedSeq(S, n) == UNION { [1..k -> S] : k \in 0..n }

t291 == <<"2","9","1">>
t5 == <<"5">>
t229 == <<"2","2","9">>
t999 == <<"9","9","9">>
t20m == <<"2","0","m">>
t20M == <<"2","0","M">>
t40m == <<"4","0","m">>
t2m == <<"2","m">>
tW1AW == <<"W","1","A","W">>
tDK9RC == <<"D","K","9","R","C">>

\* Contacts with two entities on recognized and unrecognized bands,
\* confirmed via LoTW or not at all.
PoolBands ==
  { Field("DXCC", t291) @@ Field("BAND", b) @@ Field("LOTW_QSL_RCVD", c) :
      b \in {Undefined, t20m, t20M, t2m}, c \in {Undefined, <<"y">>} }
  \cup { Field("DXCC", t5) @@ Field("BAND", b) @@ Field("LOTW_QSL_RCVD", c) :
      b \in {t20m}, c \in {<<"N">>, <<"V">>} }
  \cup { Field("DXCC", t291) @@ Field("BAND", t40m) }

\* Contacts of one entity that differ in the confirmation fields they carry.
PoolPlatforms ==
  { Field("DXCC", t291) @@ Field("BAND", t20m) @@ c :
      c \in { EmptyRec,
              Field("LOTW_QSL_RCVD", <<"Y">>),
              Field("LOTW_QSL_RCVD", <<"N">>),
              Field("EQSL_QSL_RCVD", <<"v">>),
              Field("QRZCOM_QSL_RCVD", <<"Y">>),
              Field("QRZ_QSL_RCVD", <<"y">>) @@ Field("QRZCOM_QSO_DOWNLOAD_STATUS", <<"V">>),
              Field("QRZCOM_QSO_UPLOAD_STATUS", <<"Y">>) } }
  \cup { Field("DXCC", t291) @@ Field("BAND", t2m) @@ c :
      c \in { EmptyRec,
              Field("QSL_RCVD", <<"V">>) @@ Field("LOTW_QSL_RCVD", <<"y">>) } }

\* Contacts that differ in the name and continent they carry, for an active,
\* a deleted and an unlisted identifier.
PoolNames ==
  { Field("DXCC", d) @@ Field("COUNTRY", n) @@ Field("CONT", c) :
      d \in {t291, t229, t999},
      n \in {Undefined, <<"X">>},
      c \in {Undefined, <<"A","S">>} }

\* Contacts that differ in mode and callsign fields, and two without a
\* grouping key.
PoolFilters ==
  { Field("DXCC", t291) @@ Field("MODE", m) @@ Field("STATION_CALLSIGN", s)
      @@ Field("OPERATOR", o) :
      m \in {Undefined, <<"C","W">>, <<"f","t","8">>},
      s \in {Undefined, << >>, tDK9RC},
      o \in {Undefined, <<"w","1","a","w">>} }
  \cup { Field("MODE", <<"C","W">>) @@ Field("OPERATOR", <<"w","1","a","w">>),
         Field("DXCC", << >>) @@ Field("MODE", <<"U","S","B">>)
           @@ Field("STATION_CALLSIGN", tW1AW) }

ConfValues == { Undefined, <<"Y">>, <<"v">>, <<"N">> }

\* One contact per assignment of the seven status fields.
PoolConfirm ==
  { Field("DXCC", t291) @@ Field("BAND", t20M)
      @@ Field("LOTW_QSL_RCVD", a) @@ Field("EQSL_QSL_RCVD", b)
      @@ Field("QSL_RCVD", c) @@ Field("QRZCOM_QSL_RCVD", d)
      @@ Field("QRZ_QSL_RCVD", e) @@ Field("QRZCOM_QSO_DOWNLOAD_STATUS", f)
      @@ Field("QRZCOM_QSO_UPLOAD_STATUS", g) :
      a \in ConfValues, b \in ConfValues, c \in ConfValues, d \in ConfValues,
      e \in ConfValues, f \in ConfValues, g \in ConfValues }

ModeFilters == {"all", "ssb", "cw", "digital"}

ModeChars == {"C", "W", "A", "M", "F", "T", "8", " ", "c"}

\* Mode texts the vocabularies are written for, beyond the short ones.
SampleModes ==
  { <<"S","S","B">>, <<"U","S","B">>, <<"l","s","b">>, <<"U","S","B"," ","D">>,
    <<"F","M">>, <<"D","M","R">>, <<"R","T","T","Y">>, <<"P","S","K","3","1">>,
    <<"M","F","S","K","1","6">>, <<"J","T","6","5","A">>,
    <<"O","L","I","V","I","A"," ","8">>, <<"D","O","M","I","N","O","E","X">>,
    <<"C","W","S","S","B">>, <<"S","S","B","C","W">>, <<"A","M"," ","F","T","8">> }

ModeInputs == BoundedSeq(ModeChars, MaxModeLen) \cup SampleModes \cup {Undefined}

\* -------------------------------------------------------------- the view
DigitOf ==
  [c \in {"0","1","2","3","4","5","6","7","8","9"} |->
     CASE c = "0" -> 0 [] c = "1" -> 1 [] c = "2" -> 2 [] c = "3" -> 3
       [] c = "4" -> 4 [] c = "5" -> 5 [] c = "6" -> 6 [] c = "7" -> 7
       [] c = "8" -> 8 [] c = "9" -> 9]

DigitChars == <<"0","1","2","3","4","5","6","7","8","9">>

isDigits(s) == \A i \in 1..Len(s) : s[i] \in DOMAIN DigitOf

\* parseInt of a text made of decimal digits.
RECURSIVE parseInt(_)
parseInt(s) ==
  IF s = << >> THEN 0
  ELSE 10 * parseInt(SubSeq(s, 1, Len(s) - 1)) + DigitOf[s[Len(s)]]

\* Integer-like property names enumerate in ascending numeric order.
RECURSIVE ascending(_)
ascending(ids) ==
  IF ids = {} THEN << >>
  ELSE LET m == CHOOSE x \in ids : \A y \in ids : parseInt(x) <= parseInt(y)
       IN  <<m>> \o ascending(ids \ {m})

\* Object.entries(analyzedData), as the sequence of its keys.
ObjectEntries(data) == ascending(DOMAIN data)

availableOperators ==
  IF ~loaded THEN {}
  ELSE { resolvedCall(logData[i]) : i \in { j \in 1..Len(logData) :
           Truthy(Or3(Get(logData[j], "STATION_CALLSIGN"),
                      Get(logData[j], "OPERATOR"), << >>)) } }

availableContinents ==
  IF ~loaded THEN {}
  ELSE { analyzedData[id].cont : id \in { k \in DOMAIN analyzedData :
           Truthy(analyzedData[k].cont) } }

\* ((confirmed / worked) * 100).toFixed(1), in tenths of a percent.
toFixed1(confirmed, worked) == (confirmed * 2000 + worked) \div (2 * worked)

RECURSIVE SumOver(_, _)
SumOver(f, keys) ==
  IF keys = {} THEN 0
  ELSE LET k == CHOOSE x \in keys : TRUE
       IN  f[k] + SumOver(f, keys \ {k})

NoStats == [totalQSOs |-> 0, worked |-> 0, confirmed |-> 0, percentage |-> 0]

statsCountAnyBandStatus(data) ==
  LET worked == Cardinality(DOMAIN data)
      confirmed == Cardinality({ id \in DOMAIN data :
                      \E i \in 1..Len(BANDS) : data[id].bands[BANDS[i]] # "null" })
  IN  [ totalQSOs |-> SumOver([id \in DOMAIN data |-> data[id].total], DOMAIN data),
        worked |-> worked,
        confirmed |-> confirmed,
        percentage |-> IF worked > 0 THEN toFixed1(confirmed, worked) ELSE 0 ]

\* stats of an aggregate set (the caller handles analyzedData = null).
statsOf(data) ==
  LET worked == Cardinality(DOMAIN data)
      confirmed == Cardinality({ id \in DOMAIN data :
                      \E i \in 1..Len(BANDS) : data[id].bands[BANDS[i]] = "C" })
  IN  [ totalQSOs |-> SumOver([id \in DOMAIN data |-> data[id].total], DOMAIN data),
        worked |-> worked,
        confirmed |-> confirmed,
        percentage |-> IF worked > 0 THEN toFixed1(confirmed, worked) ELSE 0 ]

stats == statsOf(analyzedData)

getDisplayQsosIgnorePlatform(data) ==
  IF filterBand # All THEN data.bandQsos[filterBand] ELSE data.total

getDisplayQsos(data) ==
  IF filterBand # All /\ filterConfirmation # "all"
  THEN data.bandPlatformQsos[filterBand][filterConfirmation]
  ELSE IF filterBand # All THEN data.bandQsos[filterBand]
  ELSE IF filterConfirmation # "all" THEN data.platformQsos[filterConfirmation]
  ELSE data.total

getDisplayConfirmation(data, platform) ==
  IF filterBand # All THEN data.bandConfirmations[filterBand][platform]
  ELSE data[platform]

getDisplayBandStatusStored(data, band) == data.bands[band]

getDisplayBandStatus(data, band) ==
  LET status == data.bands[band]
  IN  IF status = "null" THEN "null"
      ELSE IF filterConfirmation # "all"
      THEN IF data.bandConfirmations[band][filterConfirmation] THEN "C"
           ELSE IF data.bandQsos[band] > 0 THEN "W"
           ELSE "null"
      ELSE status

\* The bands the status filter and the filtered statistics look at.
bandsToCheck == IF filterBand # All THEN {filterBand} ELSE BandSet

passesSearch(id, data) ==
  Truthy(searchTerm) =>
    LET term == toLowerCase(searchTerm)
    IN  includes(toLowerCase(data.country), term) \/ includes(id, term)

passesContinent(data) == filterContinent # All => data.cont = filterContinent

passesBand(data) ==
  filterBand # All => data.bands[filterBand] \in {"C", "W"}

passesPlatformIgnored(data) == TRUE

passesPlatform(data) ==
  filterConfirmation # "all" =>
    IF filterBand # All
    THEN data.bandConfirmations[filterBand][filterConfirmation]
    ELSE data[filterConfirmation]

passesStatusAnyWorked(data) ==
  CASE filterStatus = "confirmed" ->
         \E band \in bandsToCheck : data.bands[band] = "C"
    [] filterStatus = "worked" ->
         \E band \in bandsToCheck : data.bands[band] = "W"
    [] OTHER -> TRUE

\* The status filter under a given status mode.
passesStatusIn(data, status) ==
  CASE status = "confirmed" ->
         \E band \in bandsToCheck : data.bands[band] = "C"
    [] status = "worked" ->
         /\ \A band \in bandsToCheck : data.bands[band] # "C"
         /\ \E band \in bandsToCheck : data.bands[band] = "W"
    [] OTHER -> TRUE

passesStatus(data) == passesStatusIn(data, filterStatus)

\* filteredData before its sort: the entries every filter lets through.
filteredEntries ==
  IF ~loaded THEN << >>
  ELSE LET keep(id) == /\ passesSearch(id, analyzedData[id])
                       /\ passesContinent(analyzedData[id])
                       /\ passesBand(analyzedData[id])
                       /\ passesPlatform(analyzedData[id])
                       /\ passesStatus(analyzedData[id])
       IN  SelectSeq(ObjectEntries(analyzedData), keep)

filteredIds == { filteredEntries[i] : i \in 1..Len(filteredEntries) }

hasActiveFilters ==
  \/ Truthy(searchTerm)
  \/ filterStatus # "all"
  \/ filterMode # "all"
  \/ filterOperator # All
  \/ filterContinent # All
  \/ filterConfirmation # "all"
  \/ filterBand # All

filteredStats ==
  IF filteredEntries = << >> THEN NoStats
  ELSE LET worked == Len(filteredEntries)
           confirmed == Cardinality({ id \in filteredIds :
                           \E band \in bandsToCheck : analyzedData[id].bands[band] = "C" })
       IN  [ totalQSOs |-> SumOver([id \in filteredIds |-> getDisplayQsos(analyzedData[id])],
                                   filteredIds),
             worked |-> worked,
             confirmed |-> confirmed,
             percentage |-> IF worked > 0 THEN toFixed1(confirmed, worked) ELSE 0 ]

\* data.cont || 'Unknown'
chartContinent(data) == IF Truthy(data.cont) THEN data.cont ELSE Unknown

\* chartData.continentData as a map from continent to its two counters.
continentData ==
  [ cont \in { chartContinent(analyzedData[id]) : id \in filteredIds } |->
      LET rows == { id \in filteredIds : chartContinent(analyzedData[id]) = cont }
      IN  [ worked |-> Cardinality(rows),
            confirmed |-> Cardinality({ id \in rows :
                            \E band \in bandsToCheck :
                              analyzedData[id].bands[band] = "C" }) ] ]

\* chartData.bandsToShow
bandsToShow == IF filterBand # All THEN {filterBand} ELSE BandSet

\* chartData.heatmapData: one row per continent of the filtered entities,
\* one cell per shown band, counted with the displayed band status.
heatmapData ==
  [ cont \in { analyzedData[id].cont : id \in filteredIds } \ {Undefined, << >>} |->
      [ band \in bandsToShow |->
          LET confirmed == Cardinality({ id \in filteredIds :
                             /\ analyzedData[id].cont = cont
                             /\ getDisplayBandStatus(analyzedData[id], band) = "C" })
              worked == Cardinality({ id \in filteredIds :
                          /\ analyzedData[id].cont = cont
                          /\ getDisplayBandStatus(analyzedData[id], band) = "W" })
          IN  [ total |-> confirmed + worked, c |-> confirmed, w |-> worked ] ] ]

RECURSIVE MaxOver(_, _)
MaxOver(f, keys) ==
  IF keys = {} THEN 0
  ELSE LET k == CHOOSE x \in keys : TRUE
           rest == MaxOver(f, keys \ {k})
       IN  IF f[k] >= rest THEN f[k] ELSE rest

maxValOfMatrix(row) ==
  LET rowMax == [cont \in DOMAIN heatmapData |->
                   MaxOver([band \in bandsToShow |-> heatmapData[cont][band].total],
                           bandsToShow)]
      m == MaxOver(rowMax, DOMAIN rowMax)
  IN  IF m >= 1 THEN m ELSE 1

\* maxVal of a rendered heatmap row: Math.max(...cells of the row, 1).
maxVal(row) ==
  LET m == MaxOver([band \in DOMAIN row |-> row[band].total], DOMAIN row)
  IN  IF m >= 1 THEN m ELSE 1

\* intensity = total / maxVal of a rendered cell, as a fraction.
intensity(cont, band) ==
  [ num |-> heatmapData[cont][band].total, den |-> maxVal(heatmapData[cont]) ]

showAll == itemsPerPage = 0

\* Math.ceil(filteredData.length / itemsPerPage)
totalPages ==
  IF showAll THEN 1
  ELSE (Len(filteredEntries) + itemsPerPage - 1) \div itemsPerPage

\* --------------------------------------------------------- view inputs
tCountry == <<"c","o","u","n","t","r","y">>
tDxcc == <<"d","x","c","c">>
tCont == <<"c","o","n","t">>
tQsos == <<"q","s","o","s">>
tLotw == <<"l","o","t","w">>
tEqsl == <<"e","q","s","l">>
tQrz == <<"q","r","z">>
tQsl == <<"q","s","l">>
tNA == <<"N","A">>
tEU == <<"E","U">>
tCW == <<"C","W">>
tFT8 == <<"F","T","8">>
tY == <<"Y">>

\* The sortable column headers of the table.
SortColumns ==
  {tCountry, tDxcc, tCont, tQsos} \cup BandSet \cup {tLotw, tEqsl, tQrz, tQsl}

\* The options of the page size select.
PageSizes == {10, 15, 25, 50, 0}

\* Two contacts with entity 291 on 20m, the second confirmed via LoTW, and
\* an unconfirmed contact with entity 5 on 40m.
FileA ==
  [ name |-> <<"a">>,
    qsos |-> << Field("DXCC", t291) @@ Field("BAND", t20m),
                Field("DXCC", t291) @@ Field("BAND", t20m)
                  @@ Field("LOTW_QSL_RCVD", tY),
                Field("DXCC", t5) @@ Field("BAND", t40m) >> ]

\* Contacts of two operators in three modes: two entities confirmed on one
\* band and only worked on another, a deleted entity met on an unlisted
\* band, and an unlisted entity that is only worked.
FileB ==
  [ name |-> <<"b">>,
    qsos |-> << Field("DXCC", t291) @@ Field("BAND", t20m) @@ Field("MODE", tCW)
                  @@ Field("STATION_CALLSIGN", tW1AW)
                  @@ Field("LOTW_QSL_RCVD", tY),
                Field("DXCC", t291) @@ Field("BAND", t40m) @@ Field("MODE", tFT8)
                  @@ Field("STATION_CALLSIGN", tDK9RC),
                Field("DXCC", t5) @@ Field("BAND", t40m) @@ Field("MODE", tFT8)
                  @@ Field("STATION_CALLSIGN", tDK9RC)
                  @@ Field("EQSL_QSL_RCVD", tY),
                Field("DXCC", t229) @@ Field("BAND", t2m) @@ Field("MODE", tCW)
                  @@ Field("STATION_CALLSIGN", tW1AW) @@ Field("QSL_RCVD", tY),
                Field("DXCC", t5) @@ Field("BAND", t20m) @@ Field("MODE", tCW)
                  @@ Field("STATION_CALLSIGN", tW1AW),
                Field("DXCC", t999) @@ Field("BAND", t20m)
                  @@ Field("MODE", <<"S","S","B">>)
                  @@ Field("STATION_CALLSIGN", tW1AW) >> ]

\* An entity confirmed via LoTW on 20m and via eQSL on an unlisted band, an
\* entity only worked, and an entity met on an unlisted band only.
FileC ==
  [ name |-> <<"d">>,
    qsos |-> << Field("DXCC", t291) @@ Field("BAND", t20m)
                  @@ Field("LOTW_QSL_RCVD", tY),
                Field("DXCC", t291) @@ Field("BAND", t2m)
                  @@ Field("EQSL_QSL_RCVD", tY),
                Field("DXCC", t5) @@ Field("BAND", t40m),
                Field("DXCC", t999) @@ Field("BAND", t2m) >> ]

\* Two entities of one continent on the same band, one of another continent
\* on another band.
FileD ==
  [ name |-> <<"e">>,
    qsos |-> << Field("DXCC", t5) @@ Field("BAND", t20m),
                Field("DXCC", t229) @@ Field("BAND", t20m)
                  @@ Field("LOTW_QSL_RCVD", tY),
                Field("DXCC", t291) @@ Field("BAND", t40m) >> ]

\* An entity whose log names its country with a comma, confirmed on 20m.
FileE ==
  [ name |-> <<"f">>,
    qsos |-> << Field("DXCC", t291) @@ Field("BAND", t20m)
                  @@ Field("COUNTRY", <<"K","o","r","e","a",","," ","R","e","p">>)
                  @@ Field("LOTW_QSL_RCVD", tY),
                Field("DXCC", t5) @@ Field("BAND", t40m) >> ]

\* Eleven entities with one contact each, more rows than the smallest page;
\* the first two contacts name their mode and operator.
FileBig ==
  [ name |-> <<"c">>,
    qsos |-> [ i \in 1..11 |->
                 Field("DXCC", IF i < 10 THEN <<DigitChars[i + 1]>>
                               ELSE <<"1", DigitChars[i - 9]>>)
                   @@ Field("BAND", t20m)
                   @@ Field("MODE", IF i = 1 THEN tCW
                                    ELSE IF i = 2 THEN tFT8 ELSE Undefined)
                   @@ Field("STATION_CALLSIGN",
                            IF i = 1 THEN tW1AW
                            ELSE IF i = 2 THEN tDK9RC ELSE Undefined)
                   @@ Field("LOTW_QSL_RCVD", IF i = 1 THEN tY ELSE Undefined) ] ]

SearchTerms == { << >>, <<"A","L">>, <<"9">> }

\* The state the useState hooks of lines 13-26 start with, logData aside.
InitView ==
  /\ fileName = << >>
  /\ pendingReads = {}
  /\ analyzedData = EmptyData
  /\ searchTerm = << >>
  /\ filterStatus = "all"
  /\ filterContinent = All
  /\ filterConfirmation = "all"
  /\ filterBand = All
  /\ sortColumn = tCountry
  /\ sortDirection = "asc"
  /\ currentPage = 1
  /\ showCharts = FALSE
  /\ itemsPerPage = 15
  /\ filterDateFrom = Undefined
  /\ filterDateTo = Undefined
  /\ content = << >>
  /\ records = << >>
  /\ currentQso = EmptyRec
  /\ lastIndex = 0

\* ------------------------------------------------------------------ actions
\* analyzeQSOs, lines 153-162: the two pre-aggregation filters.
FilterQsos ==
  /\ pc = "filter"
  /\ filteredQsos' = SelectSeqBy(logData, filterMode, filterOperator)
  /\ pc' = "fold"
  /\ UNCHANGED << logData, filterMode, filterOperator, pos, dxccData, modeVars,
                  viewVars >>

\* analyzeQSOs, lines 164-240: one iteration of filteredQsos.forEach.
FoldRecord ==
  /\ pc = "fold"
  /\ pos < Len(filteredQsos)
  /\ dxccData' = foldQso(dxccData, filteredQsos[pos + 1])
  /\ pos' = pos + 1
  /\ UNCHANGED << logData, filterMode, filterOperator, pc, filteredQsos, modeVars,
                  viewVars >>

\* analyzeQSOs, line 242: return dxccData.
ReturnData ==
  /\ pc = "fold"
  /\ pos = Len(filteredQsos)
  /\ pc' = "done"
  /\ UNCHANGED << logData, filterMode, filterOperator, filteredQsos, pos, dxccData,
                  modeVars, viewVars >>

\* categorizeMode applied to its argument.
Categorize ==
  /\ category = "pending"
  /\ category' = categorizeMode(mode)
  /\ UNCHANGED << mode, foldVars, viewVars >>

\* ------------------------------------------------------- view actions
\* What no handler of the component writes.
idleVars == << callVars, modeVars, dateVars, parseVars >>

memoDepsNoOperator(l, qsos, m, o) == << l, qsos, m >>

\* The dependency array of the analyzedData memo, with logData's two parts.
memoDeps(l, qsos, m, o) == << l, qsos, m, o >>

\* The analyzedData memo after a render that follows a state change.
Recompute ==
  analyzedData' =
    IF ~loaded' THEN EmptyData
    ELSE IF memoDeps(loaded', logData', filterMode', filterOperator')
              # memoDeps(loaded, logData, filterMode, filterOperator)
         THEN analyzeQSOs(logData', filterMode', filterOperator')
         ELSE analyzedData

\* handleFileUpload up to reader.readAsText(file); the input is rendered
\* while no file is loaded and, as Reload, beside the shown file name.
HandleFileUpload(files) ==
  /\ ~loaded \/ Truthy(fileName)
  /\ \E file \in files :
       /\ fileName' = file.name
       /\ pendingReads' = pendingReads \cup {file}
  /\ UNCHANGED << logData, filterMode, filterOperator, loaded, analyzedData,
                  postFilterVars, sortVars, pageVars, showCharts, idleVars >>

\* reader.onload of one read in flight; file.qsos is parseADIF(content).
ReaderOnLoad ==
  \E file \in pendingReads :
    /\ pendingReads' = pendingReads \ {file}
    /\ logData' = file.qsos
    /\ loaded' = TRUE
    /\ currentPage' = 1
    /\ UNCHANGED << filterMode, filterOperator, fileName, postFilterVars,
                    sortVars, itemsPerPage, showCharts, idleVars >>
    /\ Recompute

\* The "Upload Different File" button.
UploadDifferentFile ==
  /\ loaded
  /\ loaded' = FALSE
  /\ logData' = << >>
  /\ fileName' = << >>
  /\ UNCHANGED << filterMode, filterOperator, pendingReads, postFilterVars,
                  sortVars, pageVars, showCharts, idleVars >>
  /\ Recompute

SetSearchTerm(terms) ==
  /\ loaded
  /\ \E t \in terms : t # searchTerm /\ searchTerm' = t
  /\ currentPage' = 1
  /\ UNCHANGED << logData, filterMode, filterOperator, fileVars, analyzedData,
                  filterStatus, filterContinent, filterConfirmation, filterBand,
                  sortVars, itemsPerPage, showCharts, idleVars >>

StatusFilters == {"all", "confirmed", "worked"}

\* One of the status buttons.
SetFilterStatus(statuses) ==
  /\ loaded
  /\ \E s \in statuses : filterStatus' = s
  /\ currentPage' = 1
  /\ UNCHANGED << logData, filterMode, filterOperator, fileVars, analyzedData,
                  searchTerm, filterContinent, filterConfirmation, filterBand,
                  sortVars, itemsPerPage, showCharts, idleVars >>

SetFilterMode(modes) ==
  /\ loaded
  /\ \E m \in modes : m # filterMode /\ filterMode' = m
  /\ currentPage' = 1
  /\ UNCHANGED << logData, filterOperator, fileVars, postFilterVars,
                  sortVars, itemsPerPage, showCharts, idleVars >>
  /\ Recompute

\* The operator select exists while the log names more than one callsign;
\* the tag of an active operator filter sets it back to 'all'.
SetFilterOperator ==
  /\ loaded
  /\ \E o \in {All} \cup availableOperators :
       /\ o # filterOperator
       /\ Cardinality(availableOperators) > 1 \/ o = All
       /\ filterOperator' = o
  /\ currentPage' = 1
  /\ UNCHANGED << logData, filterMode, fileVars, postFilterVars,
                  sortVars, itemsPerPage, showCharts, idleVars >>
  /\ Recompute

SetFilterContinent ==
  /\ loaded
  /\ \E c \in {All} \cup availableContinents :
       c # filterContinent /\ filterContinent' = c
  /\ currentPage' = 1
  /\ UNCHANGED << logData, filterMode, filterOperator, fileVars, analyzedData,
                  searchTerm, filterStatus, filterConfirmation, filterBand,
                  sortVars, itemsPerPage, showCharts, idleVars >>

SetFilterConfirmation(platforms) ==
  /\ loaded
  /\ \E p \in {"all"} \cup platforms :
       p # filterConfirmation /\ filterConfirmation' = p
  /\ currentPage' = 1
  /\ UNCHANGED << logData, filterMode, filterOperator, fileVars, analyzedData,
                  searchTerm, filterStatus, filterContinent, filterBand,
                  sortVars, itemsPerPage, showCharts, idleVars >>

SetFilterBand(bands) ==
  /\ loaded
  /\ \E b \in {All} \cup bands : b # filterBand /\ filterBand' = b
  /\ currentPage' = 1
  /\ UNCHANGED << logData, filterMode, filterOperator, fileVars, analyzedData,
                  searchTerm, filterStatus, filterContinent, filterConfirmation,
                  sortVars, itemsPerPage, showCharts, idleVars >>

resetAllFilters ==
  /\ loaded
  /\ hasActiveFilters
  /\ searchTerm' = << >>
  /\ filterStatus' = "all"
  /\ filterMode' = "all"
  /\ filterOperator' = All
  /\ filterContinent' = All
  /\ filterConfirmation' = "all"
  /\ filterBand' = All
  /\ currentPage' = 1
  /\ UNCHANGED << logData, fileVars, sortVars, itemsPerPage, showCharts,
                  idleVars >>
  /\ Recompute

descFirstBandsOnly(column) == column \in BandSet

\* The columns a first click sorts in descending order.
descFirst(column) ==
  column \in BandSet \/ column \in {tLotw, tEqsl, tQrz, tQsl, tQsos}

handleSortKeepPage(column) ==
  /\ loaded
  /\ IF sortColumn = column
     THEN /\ sortDirection' = (IF sortDirection = "asc" THEN "desc" ELSE "asc")
          /\ UNCHANGED sortColumn
     ELSE /\ sortColumn' = column
          /\ sortDirection' = (IF descFirst(column) THEN "desc" ELSE "asc")
  /\ UNCHANGED << logData, filterMode, filterOperator, fileVars, analyzedData,
                  postFilterVars, pageVars, showCharts, idleVars >>

handleSort(column) ==
  /\ loaded
  /\ IF sortColumn = column
     THEN /\ sortDirection' = (IF sortDirection = "asc" THEN "desc" ELSE "asc")
          /\ UNCHANGED sortColumn
     ELSE /\ sortColumn' = column
          /\ sortDirection' = (IF descFirst(column) THEN "desc" ELSE "asc")
  /\ currentPage' = 1
  /\ UNCHANGED << logData, filterMode, filterOperator, fileVars, analyzedData,
                  postFilterVars, itemsPerPage, showCharts, idleVars >>

HandleSort(columns) == \E column \in columns : handleSort(column)

ToggleCharts ==
  /\ loaded
  /\ showCharts' = ~showCharts
  /\ UNCHANGED << logData, filterMode, filterOperator, fileVars, analyzedData,
                  postFilterVars, sortVars, pageVars, idleVars >>

Max(a, b) == IF a >= b THEN a ELSE b

Min(a, b) == IF a <= b THEN a ELSE b

\* The Previous button: rendered with more than one page, disabled on page 1.
PreviousPage ==
  /\ loaded /\ ~showAll /\ totalPages > 1
  /\ currentPage # 1
  /\ currentPage' = Max(1, currentPage - 1)
  /\ UNCHANGED << logData, filterMode, filterOperator, fileVars, analyzedData,
                  postFilterVars, sortVars, itemsPerPage, showCharts, idleVars >>

\* The Next button: rendered with more than one page, disabled on the last.
NextPage ==
  /\ loaded /\ ~showAll /\ totalPages > 1
  /\ currentPage # totalPages
  /\ currentPage' = Min(totalPages, currentPage + 1)
  /\ UNCHANGED << logData, filterMode, filterOperator, fileVars, analyzedData,
                  postFilterVars, sortVars, itemsPerPage, showCharts, idleVars >>

SetItemsPerPage(sizes) ==
  /\ loaded
  /\ \E n \in sizes : n # itemsPerPage /\ itemsPerPage' = n
  /\ currentPage' = 1
  /\ UNCHANGED << logData, filterMode, filterOperator, fileVars, analyzedData,
                  postFilterVars, sortVars, showCharts, idleVars >>

\* -------------------------------------------------- sorting and export
\* The collation rank of a character: blanks and punctuation before digits,
\* digits before letters, letters in alphabetical order whatever their case.
CharRank(c) ==
  IF c = " " THEN 0
  ELSE IF c \in DOMAIN DigitOf THEN 10 + DigitOf[c]
  ELSE IF \E i \in 1..26 : c = LowerChars[i] \/ c = UpperChars[i]
  THEN 20 + (CHOOSE i \in 1..26 : c = LowerChars[i] \/ c = UpperChars[i])
  ELSE 1

\* a.localeCompare(b): negative, zero or positive; texts that differ only in
\* case put the lower-case letter first.
localeCompare(a, b) ==
  LET n == Min(Len(a), Len(b))
      diff == { i \in 1..n : CharRank(a[i]) # CharRank(b[i]) }
      caseDiff == { i \in 1..n : a[i] # b[i] }
  IN  IF diff # {}
      THEN LET i == CHOOSE x \in diff : \A y \in diff : x <= y
           IN  IF CharRank(a[i]) < CharRank(b[i]) THEN -1 ELSE 1
      ELSE IF Len(a) # Len(b) THEN (IF Len(a) < Len(b) THEN -1 ELSE 1)
      ELSE IF caseDiff # {}
      THEN LET i == CHOOSE x \in caseDiff : \A y \in caseDiff : x <= y
           IN  IF a[i] \in DOMAIN UpperOf THEN -1 ELSE 1
      ELSE 0

\* statusOrder[status] || 0
statusOrder(status) == IF status = "C" THEN 2 ELSE IF status = "W" THEN 1 ELSE 0

OrEmpty(v) == IF Truthy(v) THEN v ELSE << >>

PlatformOf(column) ==
  IF column = tLotw THEN "lotw" ELSE IF column = tEqsl THEN "eqsl"
  ELSE IF column = tQrz THEN "qrz" ELSE "qsl"

\* The comparator of filteredData's sort, before the direction is applied.
comparison(idA, idB) ==
  LET dataA == analyzedData[idA]
      dataB == analyzedData[idB]
  IN  IF sortColumn = tCountry THEN localeCompare(dataA.country, dataB.country)
      ELSE IF sortColumn = tDxcc THEN parseInt(idA) - parseInt(idB)
      ELSE IF sortColumn = tCont
      THEN localeCompare(OrEmpty(dataA.cont), OrEmpty(dataB.cont))
      ELSE IF sortColumn = tQsos THEN getDisplayQsos(dataA) - getDisplayQsos(dataB)
      ELSE IF sortColumn \in BandSet
      THEN statusOrder(getDisplayBandStatus(dataA, sortColumn))
             - statusOrder(getDisplayBandStatus(dataB, sortColumn))
      ELSE IF sortColumn \in {tLotw, tEqsl, tQrz, tQsl}
      THEN LET confA == getDisplayConfirmation(dataA, PlatformOf(sortColumn))
               confB == getDisplayConfirmation(dataB, PlatformOf(sortColumn))
           IN  IF confA = confB THEN 0 ELSE IF confA THEN 1 ELSE -1
      ELSE 0

directed(idA, idB) ==
  IF sortDirection = "asc" THEN comparison(idA, idB) ELSE 0 - comparison(idA, idB)

\* Array.prototype.sort, which is stable: an entry is placed before the first
\* entry that compares greater.
RECURSIVE sortEntries(_, _)
sortEntries(entries, done) ==
  IF entries = << >> THEN done
  ELSE LET x == Head(entries)
           greater == { i \in 1..Len(done) : directed(done[i], x) > 0 }
           at == IF greater = {} THEN Len(done) + 1
                 ELSE CHOOSE i \in greater : \A j \in greater : i <= j
       IN  sortEntries(Tail(entries),
                       SubSeq(done, 1, at - 1) \o << x >> \o SubSeq(done, at, Len(done)))

\* filteredData: the filtered entries in the current sort order.
filteredData == sortEntries(filteredEntries, << >>)

\* paginatedData
paginatedData ==
  IF showAll THEN filteredData
  ELSE SubSeq(filteredData, (currentPage - 1) * itemsPerPage + 1,
              Min(currentPage * itemsPerPage, Len(filteredData)))

\* String(n) of a natural number.
RECURSIVE String(_)
String(n) ==
  IF n < 10 THEN << DigitChars[n + 1] >>
  ELSE String(n \div 10) \o << DigitChars[(n % 10) + 1] >>

\* array.join(separator) of texts.
RECURSIVE join(_, _)
join(texts, sep) ==
  IF texts = << >> THEN << >>
  ELSE IF Len(texts) = 1 THEN texts[1]
  ELSE texts[1] \o sep \o join(Tail(texts), sep)

tYes == <<"Y","e","s">>
tNo == <<"N","o">>

\* activeFilterLabels
statusLabel == [confirmed |-> <<"C","o","n","f","i","r","m","e","d">>, worked |-> <<"W","o","r","k","e","d"," ","O","n","l","y">>]
modeLabel == [ssb |-> <<"S","S","B">>, cw |-> <<"C","W">>, digital |-> <<"D","i","g","i","t","a","l">>]
confirmationLabel == [lotw |-> <<"L","O","T","W">>, eqsl |-> <<"e","Q","S","L">>, qrz |-> <<"Q","R","Z">>, qsl |-> <<"P","a","p","e","r">>]

\* The filters array of exportToCSV.
exportFilters ==
  (IF Truthy(searchTerm) THEN << <<"S","e","a","r","c","h",":"," ">> \o searchTerm >> ELSE << >>)
  \o (IF filterStatus # "all" THEN << <<"S","t","a","t","u","s",":"," ">> \o statusLabel[filterStatus] >> ELSE << >>)
  \o (IF filterMode # "all" THEN << <<"M","o","d","e",":"," ">> \o modeLabel[filterMode] >> ELSE << >>)
  \o (IF filterOperator # All THEN << <<"O","p","e","r","a","t","o","r",":"," ">> \o filterOperator >> ELSE << >>)
  \o (IF filterContinent # All THEN << <<"C","o","n","t","i","n","e","n","t",":"," ">> \o filterContinent >> ELSE << >>)
  \o (IF filterConfirmation # "all"
      THEN << <<"P","l","a","t","f","o","r","m",":"," ">> \o confirmationLabel[filterConfirmation] >> ELSE << >>)
  \o (IF filterBand # All THEN << <<"B","a","n","d",":"," ">> \o filterBand >> ELSE << >>)

exportHeaders ==
  << <<"D","X","C","C"," ","I","D">>, <<"C","o","u","n","t","r","y">>, <<"D","e","l","e","t","e","d">>, <<"C","o","n","t","i","n","e","n","t">>, <<"T","o","t","a","l"," ","Q","S","O","s">> >>
  \o BANDS \o << <<"L","O","T","W">>, <<"e","Q","S","L">>, <<"Q","R","Z">>, <<"P","a","p","e","r">> >>

\* One row of the export; null and undefined join as the empty text.
exportRow(id) ==
  LET data == analyzedData[id]
      shown(band) == LET st == getDisplayBandStatus(data, band)
                     IN  IF st = "null" THEN << >> ELSE << st >>
      yesNo(p) == IF getDisplayConfirmation(data, p) THEN tYes ELSE tNo
  IN  << id, data.country, IF data.deleted THEN tYes ELSE << >>,
         OrEmpty(data.cont), String(getDisplayQsos(data)) >>
      \o [i \in 1..Len(BANDS) |-> shown(BANDS[i])]
      \o << yesNo("lotw"), yesNo("eqsl"), yesNo("qrz"), yesNo("qsl") >>

exportRowsOfPage(rows) == [i \in 1..Len(rows) |-> exportRow(rows[i])]

\* The csv text of exportToCSV, or undefined when nothing is exported.
exportCsv(rows) ==
  IF filteredData = << >> THEN Undefined
  ELSE LET csvRows ==
             (IF Len(exportFilters) > 0
              THEN << << <<"F","i","l","t","e","r","e","d"," ","b","y",":"," ">> \o join(exportFilters, <<" ","|"," ">>) >> >>
              ELSE << >>)
             \o << exportHeaders >>
             \o exportRowsOfPage(rows)
       IN  join([i \in 1..Len(csvRows) |-> join(csvRows[i], <<",">>)], <<"\n">>)

exportPageToCSV == exportCsv(paginatedData)

\* exportToCSV exports filteredData, the rows of every page.
exportToCSV == exportCsv(filteredData)

\* ------------------------------------------------------------ parseADIF
\* \w and \d of the tag pattern /<(\w+):(\d+)(?::(\w))?>([^<]*)/gi
isDigit(c) == c \in {"0","1","2","3","4","5","6","7","8","9"}

isWord(c) ==
  \/ isDigit(c)
  \/ c \in {"a","b","c","d","e","f","g","h","i","j","k","l","m",
             "n","o","p","q","r","s","t","u","v","w","x","y","z"}
  \/ c \in {"A","B","C","D","E","F","G","H","I","J","K","L","M",
             "N","O","P","Q","R","S","T","U","V","W","X","Y","Z"}
  \/ c = "_"

notLt(c) == c # "<"

\* The length of the longest run of characters of one class that starts at
\* position i: what a greedy + or * matches there.
runLen(s, i, P(_)) ==
  LET stops == { j \in i..Len(s) : ~P(s[j]) }
  IN  IF stops = {} THEN Max(0, Len(s) + 1 - i)
      ELSE (CHOOSE j \in stops : \A k \in stops : j <= k) - i

At(s, i) == IF i >= 1 /\ i <= Len(s) THEN s[i] ELSE "end"

NoMatch == [found |-> FALSE]

\* The tag pattern tried at position i: the captures and the position after
\* the match, or no match.
matchAt(s, i) ==
  IF At(s, i) # "<" THEN NoMatch
  ELSE LET n == runLen(s, i + 1, isWord)
           colon == i + 1 + n
           d == runLen(s, colon + 1, isDigit)
           k == colon + 1 + d
           typed == At(s, k) = ":" /\ isWord(At(s, k + 1)) /\ At(s, k + 2) = ">"
           start == IF typed THEN k + 3 ELSE k + 1
           v == runLen(s, start, notLt)
       IN  IF n >= 1 /\ At(s, colon) = ":" /\ d >= 1 /\ (typed \/ At(s, k) = ">")
           THEN [ found |-> TRUE,
                  name |-> SubSeq(s, i + 1, i + n),
                  length |-> SubSeq(s, colon + 1, colon + d),
                  rawValue |-> SubSeq(s, start, start + v - 1),
                  next |-> start + v ]
           ELSE NoMatch

\* adifTagRegex.exec(record) with lastIndex at position from: the leftmost
\* match at or after it.
exec(record, from) ==
  LET hits == { i \in from..Len(record) : matchAt(record, i).found }
  IN  IF hits = {} THEN NoMatch
      ELSE matchAt(record, CHOOSE i \in hits : \A j \in hits : i <= j)

tagValueTruncateAlways(match) ==
  LET declaredLength == parseInt(match.length)
  IN  IF Len(match.rawValue) > declaredLength
      THEN trim(SubSeq(match.rawValue, 1, declaredLength))
      ELSE trim(match.rawValue)

\* The value a matched tag stores.
tagValue(match) ==
  LET declaredLength == parseInt(match.length)
  IN  IF declaredLength > 0 /\ Len(match.rawValue) > declaredLength
      THEN trim(SubSeq(match.rawValue, 1, declaredLength))
      ELSE trim(match.rawValue)

\* qso[fieldName] = value
Store(qso, fieldName, value) ==
  [ k \in DOMAIN qso \cup {fieldName} |->
      IF k = fieldName THEN value ELSE qso[k] ]

tEor == <<"<","e","o","r",">">>

\* /<eor>/i tried at position i.
eorAt(s, i) ==
  /\ s[i] = "<"
  /\ s[i + 1] \in {"e", "E"}
  /\ s[i + 2] \in {"o", "O"}
  /\ s[i + 3] \in {"r", "R"}
  /\ s[i + 4] = ">"

RECURSIVE splitEorCaseSensitive(_)
splitEorCaseSensitive(s) ==
  LET hits == { i \in 1..(Len(s) - 4) : SubSeq(s, i, i + 4) = tEor }
  IN  IF hits = {} THEN << s >>
      ELSE LET i == CHOOSE x \in hits : \A y \in hits : x <= y
           IN  << SubSeq(s, 1, i - 1) >>
                 \o splitEorCaseSensitive(SubSeq(s, i + 5, Len(s)))

\* content.split(/<eor>/i)
RECURSIVE splitEor(_)
splitEor(s) ==
  LET hits == { i \in 1..(Len(s) - 4) : eorAt(s, i) }
  IN  IF hits = {} THEN << s >>
      ELSE LET i == CHOOSE x \in hits : \A y \in hits : x <= y
           IN  << SubSeq(s, 1, i - 1) >> \o splitEor(SubSeq(s, i + 5, Len(s)))

\* const records = content.split(/<eor>/i)
Split ==
  /\ pc = "parse"
  /\ records' = splitEor(content)
  /\ logData' = << >>
  /\ pos' = 1
  /\ pc' = "record"
  /\ UNCHANGED << filterMode, filterOperator, filteredQsos, dxccData, modeVars,
                  fileVars, analyzedData, postFilterVars, sortVars, pageVars,
                  showCharts, dateVars, content, currentQso, lastIndex >>

\* records.forEach: the callback entered for the next record, a blank record
\* left at once; after the last record parseADIF returns.
BeginRecord ==
  /\ pc = "record"
  /\ IF pos > Len(records)
     THEN pc' = "parsed" /\ UNCHANGED << pos, currentQso >>
     ELSE IF trim(records[pos]) = << >>
     THEN pos' = pos + 1 /\ UNCHANGED << pc, currentQso >>
     ELSE currentQso' = EmptyRec /\ pc' = "exec" /\ UNCHANGED pos
  /\ UNCHANGED << logData, filterMode, filterOperator, filteredQsos, dxccData,
                  modeVars, fileVars, analyzedData, postFilterVars, sortVars,
                  pageVars, showCharts, dateVars, content, records, lastIndex >>

\* One turn of the while loop: a match stores its field, no match ends the
\* record, which is pushed when it holds a field.
Exec ==
  /\ pc = "exec"
  /\ LET match == exec(records[pos], lastIndex + 1)
     IN  IF match.found
         THEN /\ currentQso' = Store(currentQso, toUpperCase(match.name), tagValue(match))
              /\ lastIndex' = match.next - 1
              /\ UNCHANGED << logData, pos, pc >>
         ELSE /\ lastIndex' = 0
              /\ logData' = (IF DOMAIN currentQso # {} THEN Append(logData, currentQso)
                             ELSE logData)
              /\ pos' = pos + 1
              /\ pc' = "record"
              /\ UNCHANGED currentQso
  /\ UNCHANGED << filterMode, filterOperator, filteredQsos, dxccData, modeVars,
                  fileVars, analyzedData, postFilterVars, sortVars, pageVars,
                  showCharts, dateVars, content, records >>

\* ---------------------------------------------------- date range filter
\* A date text parses when it is eight decimal digits (year, month, day).
dateParses(d) == d # Undefined /\ Len(d) = 8 /\ isDigits(d)

dateRangeSet(from, to) == Truthy(from) \/ Truthy(to)

inDateRangeFailOpen(qso, from, to) ==
  LET d == Get(qso, "QSO_DATE")
  IN  (dateRangeSet(from, to) /\ dateParses(d)) =>
        /\ Truthy(from) => parseInt(from) <= parseInt(d)
        /\ Truthy(to) => parseInt(d) <= parseInt(to)

\* The date test of the pre-aggregation filters: without a range every
\* record passes; with one, only a record whose date parses and lies
\* between the given ends, both included.
inDateRange(qso, from, to) ==
  LET d == Get(qso, "QSO_DATE")
  IN  dateRangeSet(from, to) =>
        /\ dateParses(d)
        /\ Truthy(from) => parseInt(from) <= parseInt(d)
        /\ Truthy(to) => parseInt(d) <= parseInt(to)

RECURSIVE SelectSeqByDate(_, _, _)
SelectSeqByDate(qsos, from, to) ==
  IF qsos = << >> THEN << >>
  ELSE IF inDateRange(Head(qsos), from, to)
       THEN <<Head(qsos)>> \o SelectSeqByDate(Tail(qsos), from, to)
       ELSE SelectSeqByDate(Tail(qsos), from, to)

\* The pre-aggregation filters with the date range as the third of them.
FilterQsosDated ==
  /\ pc = "filter"
  /\ filteredQsos' =
       SelectSeqByDate(SelectSeqBy(logData, filterMode, filterOperator),
                       filterDateFrom, filterDateTo)
  /\ pc' = "fold"
  /\ UNCHANGED << logData, filterMode, filterOperator, pos, dxccData, modeVars,
                  fileVars, analyzedData, postFilterVars, sortVars, pageVars,
                  showCharts, dateVars, parseVars >>

t20240101 == <<"2","0","2","4","0","1","0","1">>
t20240615 == <<"2","0","2","4","0","6","1","5">>
t20241231 == <<"2","0","2","4","1","2","3","1">>
t20250101 == <<"2","0","2","5","0","1","0","1">>

\* Contacts dated before, at the ends of, inside and after the year 2024,
\* undated, and with dates that are not eight digits.
PoolDates ==
  { Field("DXCC", t291) @@ Field("BAND", t20m) @@ Field("QSO_DATE", d) :
      d \in { Undefined, << >>, t20240101, t20240615, t20241231, t20250101,
              <<"2","0","2","3","1","2","3","1">>,
              <<"2","0","2","4","0","6","1">>,
              <<"2","0","2","4","-","0","6","-","1","5">>,
              <<"2","0","2","4","0","6","1","X">> } }

\* ------------------------------------------------------- missing entities
\* allActive(): the identifiers of the lookup table that are not retired.
allActive == { id \in DOMAIN DXCC_ENTITIES : ~DXCC_ENTITIES[id].deleted }

missingIgnoringBand(data, band) == { id \in allActive : id \notin DOMAIN data }

\* missing(aggregates, lookupTable, bandFilter)
missing(data, band) ==
  { id \in allActive :
      \/ id \notin DOMAIN data
      \/ band # All /\ id \in DOMAIN data /\ data[id].bands[band] = "null" }

\* The identifiers of the rows shown under the status mode.
visibleIds ==
  IF filterStatus = "notworked" THEN missing(analyzedData, filterBand)
  ELSE filteredIds

\* ----------------------------------------------------------- specifications
InitFold(pool, n, modeFilters, operatorFilters) ==
  /\ logData \in BoundedSeq(pool, n)
  /\ filterMode \in modeFilters
  /\ filterOperator \in operatorFilters
  /\ pc = "filter"
  /\ filteredQsos = << >>
  /\ pos = 0
  /\ dxccData = EmptyData
  /\ mode = Undefined
  /\ category = "idle"
  /\ loaded = TRUE
  /\ InitView

Init == InitFold(PoolBands, MaxQsos, {"all"}, {All})

InitPlatforms == InitFold(PoolPlatforms, MaxQsos, {"all"}, {All})

InitNames == InitFold(PoolNames, MaxQsos, {"all"}, {All})

InitFilters == InitFold(PoolFilters, MaxFilterQsos, ModeFilters, {All, tW1AW})

InitConfirm ==
  /\ \E q \in PoolConfirm : logData = <<q>>
  /\ filterMode = "all"
  /\ filterOperator = All
  /\ pc = "filter"
  /\ filteredQsos = << >>
  /\ pos = 0
  /\ dxccData = EmptyData
  /\ mode = Undefined
  /\ category = "idle"
  /\ loaded = TRUE
  /\ InitView

InitMode ==
  /\ mode \in ModeInputs
  /\ category = "pending"
  /\ logData = << >>
  /\ filterMode = "all"
  /\ filterOperator = All
  /\ pc = "done"
  /\ filteredQsos = << >>
  /\ pos = 0
  /\ dxccData = EmptyData
  /\ loaded = FALSE
  /\ InitView

Next == FilterQsos \/ FoldRecord \/ ReturnData

NextMode == Categorize

Spec == Init /\ [][Next]_vars

SpecPlatforms == InitPlatforms /\ [][Next]_vars

SpecNames == InitNames /\ [][Next]_vars

SpecFilters == InitFilters /\ [][Next]_vars

SpecConfirm == InitConfirm /\ [][Next]_vars

SpecMode == InitMode /\ [][NextMode]_vars

\* The component after construction: no file chosen, every hook at its default.
InitApp ==
  /\ logData = << >>
  /\ filterMode = "all"
  /\ filterOperator = All
  /\ pc = "done"
  /\ filteredQsos = << >>
  /\ pos = 0
  /\ dxccData = EmptyData
  /\ mode = Undefined
  /\ category = "idle"
  /\ loaded = FALSE
  /\ InitView

\* Choosing files, their reads completing in any order, unloading, and the
\* chart toggle of the loaded view.
NextLoad ==
  \/ HandleFileUpload({FileA, FileB, FileBig})
  \/ ReaderOnLoad
  \/ UploadDifferentFile
  \/ ToggleCharts

SpecLoad == InitApp /\ [][NextLoad]_vars

\* The component once the read of the one chosen file has completed.
InitLoaded(files) ==
  \E file \in files :
    /\ logData = file.qsos
    /\ filterMode = "all"
    /\ filterOperator = All
    /\ pc = "done"
    /\ filteredQsos = << >>
    /\ pos = 0
    /\ dxccData = EmptyData
    /\ mode = Undefined
    /\ category = "idle"
    /\ loaded = TRUE
    /\ fileName = file.name
    /\ pendingReads = {}
    /\ analyzedData = analyzeQSOs(file.qsos, "all", All)
    /\ searchTerm = << >>
    /\ filterStatus = "all"
    /\ filterContinent = All
    /\ filterConfirmation = "all"
    /\ filterBand = All
    /\ sortColumn = tCountry
    /\ sortDirection = "asc"
    /\ currentPage = 1
    /\ showCharts = FALSE
    /\ itemsPerPage = 15
    /\ filterDateFrom = Undefined
    /\ filterDateTo = Undefined
    /\ content = << >>
    /\ records = << >>
    /\ currentQso = EmptyRec
    /\ lastIndex = 0

InitViewLoaded == InitLoaded({FileA, FileB})

\* Operating every filter control on a loaded file.
NextView ==
  \/ SetSearchTerm(SearchTerms)
  \/ SetFilterStatus(StatusFilters)
  \/ SetFilterMode(ModeFilters)
  \/ SetFilterOperator
  \/ SetFilterContinent
  \/ SetFilterConfirmation({"lotw", "eqsl"})
  \/ SetFilterBand({t20m, t40m})
  \/ resetAllFilters

SpecView == InitViewLoaded /\ [][NextView]_vars

\* The filter controls on logs with contacts on unlisted bands.
InitShown == InitLoaded({FileB, FileC, FileD, FileE})

SpecShown == InitShown /\ [][NextView]_vars

\* Every kind of event of the component, each over a few inputs.
NextApp ==
  \/ HandleFileUpload({FileBig})
  \/ ReaderOnLoad
  \/ UploadDifferentFile
  \/ SetFilterMode({"all", "cw"})
  \/ SetFilterOperator
  \/ SetSearchTerm({<< >>, <<"9">>})
  \/ SetFilterStatus({"all", "confirmed"})
  \/ SetFilterContinent
  \/ SetFilterConfirmation({"lotw"})
  \/ SetFilterBand({t20m})
  \/ resetAllFilters
  \/ HandleSort({tCountry, tQsos})
  \/ ToggleCharts
  \/ PreviousPage
  \/ NextPage
  \/ SetItemsPerPage({10, 15})

SpecApp == InitApp /\ [][NextApp]_vars

\* Sorting and paging a table of eleven rows.
NextSort ==
  \/ HandleFileUpload({FileBig})
  \/ ReaderOnLoad
  \/ HandleSort(SortColumns)
  \/ SetFilterBand({t20m})
  \/ PreviousPage
  \/ NextPage
  \/ SetItemsPerPage({10, 15})

SpecSort == InitApp /\ [][NextSort]_vars

\* Fragments of ADIF text: tags whose value is longer than, as long as or
\* shorter than the declared length, with and without a type, with length
\* 0; record ends in two spellings; malformed and unfinished tags; a blank.
Pieces ==
  { <<"<","a",":","1",">","x","y">>,
    <<"<","b",":","2",">"," ","y"," ">>,
    <<"<","a",":","0",">","x","y">>,
    <<"<","C",":","1","0",":","s",">","u","v"," ">>,
    <<"<","e","o","r",">">>,
    <<"<","E","o","R",">">>,
    <<"<","a",":","x",">","y">>,
    <<" ">>,
    <<"<","d",":","1",":","s","t",">","q">>,
    <<"<","a",":","1">> }

RECURSIVE Concat(_)
Concat(texts) ==
  IF texts = << >> THEN << >> ELSE Head(texts) \o Concat(Tail(texts))

Contents == { Concat(ps) : ps \in BoundedSeq(Pieces, MaxPieces) }

\* parseADIF called on a text.
InitParse ==
  /\ content \in Contents
  /\ logData = << >>
  /\ pc = "parse"
  /\ filterMode = "all"
  /\ filterOperator = All
  /\ filteredQsos = << >>
  /\ pos = 0
  /\ dxccData = EmptyData
  /\ mode = Undefined
  /\ category = "idle"
  /\ loaded = FALSE
  /\ fileName = << >>
  /\ pendingReads = {}
  /\ analyzedData = EmptyData
  /\ searchTerm = << >>
  /\ filterStatus = "all"
  /\ filterContinent = All
  /\ filterConfirmation = "all"
  /\ filterBand = All
  /\ sortColumn = tCountry
  /\ sortDirection = "asc"
  /\ currentPage = 1
  /\ showCharts = FALSE
  /\ itemsPerPage = 15
  /\ filterDateFrom = Undefined
  /\ filterDateTo = Undefined
  /\ records = << >>
  /\ currentQso = EmptyRec
  /\ lastIndex = 0

NextParse == Split \/ BeginRecord \/ Exec

SpecParse == InitParse /\ [][NextParse]_vars

\* Paging a table of eleven rows under filters, sorts, every kind of page
\* size (several pages, one page, all rows) and repeated loads.
NextPages ==
  \/ HandleFileUpload({FileBig})
  \/ ReaderOnLoad
  \/ UploadDifferentFile
  \/ SetFilterMode({"all", "cw"})
  \/ SetSearchTerm({<< >>, <<"9">>})
  \/ SetFilterStatus({"all", "confirmed"})
  \/ SetFilterBand({t20m})
  \/ resetAllFilters
  \/ HandleSort({tCountry, tQsos})
  \/ PreviousPage
  \/ NextPage
  \/ SetItemsPerPage({10, 50, 0})

SpecPages == InitApp /\ [][NextPages]_vars

\* analyzeQSOs called with a date range: none, open at one end, or the
\* year 2024.
InitDates ==
  /\ logData \in BoundedSeq(PoolDates, MaxFilterQsos)
  /\ filterMode = "all"
  /\ filterOperator = All
  /\ pc = "filter"
  /\ filteredQsos = << >>
  /\ pos = 0
  /\ dxccData = EmptyData
  /\ mode = Undefined
  /\ category = "idle"
  /\ loaded = TRUE
  /\ fileName = << >>
  /\ pendingReads = {}
  /\ analyzedData = EmptyData
  /\ searchTerm = << >>
  /\ filterStatus = "all"
  /\ filterContinent = All
  /\ filterConfirmation = "all"
  /\ filterBand = All
  /\ sortColumn = tCountry
  /\ sortDirection = "asc"
  /\ currentPage = 1
  /\ showCharts = FALSE
  /\ itemsPerPage = 15
  /\ filterDateFrom \in {Undefined, t20240101}
  /\ filterDateTo \in {Undefined, t20241231}
  /\ content = << >>
  /\ records = << >>
  /\ currentQso = EmptyRec
  /\ lastIndex = 0

\* The status, band, mode and operator controls, the status control with
\* its Not Worked option.
NextMissing ==
  \/ SetFilterStatus(StatusFilters \cup {"notworked"})
  \/ SetFilterBand({t20m, t40m})
  \/ SetFilterMode(ModeFilters)
  \/ SetFilterOperator

SpecMissing == InitViewLoaded /\ [][NextMissing]_vars

NextDates == FilterQsosDated \/ FoldRecord \/ ReturnData

SpecDates == InitDates /\ [][NextDates]_vars

\* ------------------------------------------------------------------ claims
RECURSIVE SumTotal(_, _)
SumTotal(data, keys) ==
  IF keys = {} THEN 0
  ELSE LET k == CHOOSE x \in keys : TRUE
       IN  data[k].total + SumTotal(data, keys \ {k})

\* The records forEach has already visited.
Folded == SubSeq(filteredQsos, 1, pos)

HasKey(qso) == Truthy(Get(qso, "DXCC"))

\* Positions of the folded records that belong to entity id.
FoldedOf(id) == { i \in 1..pos : Get(filteredQsos[i], "DXCC") = id }

\* C1: the sum of `total` over all aggregates equals the number of records
\* that pass the pre-aggregation filters and carry a non-empty DXCC field
\* (after every prefix of the fold and in the returned result); the keys of
\* the aggregates are exactly the DXCC values of those records, and folding
\* a record without a DXCC field leaves every aggregate as it was.
C1_TotalCountsKeyedRecords ==
  /\ [](pc \in {"fold", "done"} =>
          /\ SumTotal(dxccData, DOMAIN dxccData)
               = Cardinality({ i \in 1..pos : HasKey(filteredQsos[i]) })
          /\ DOMAIN dxccData
               = { filteredQsos[i].DXCC : i \in { j \in 1..pos : HasKey(filteredQsos[j]) } })
  /\ [](pc = "done" =>
          SumTotal(dxccData, DOMAIN dxccData)
            = Cardinality({ i \in 1..Len(logData) :
                  /\ passesPreFilters(logData[i], filterMode, filterOperator)
                  /\ HasKey(logData[i]) }))
  /\ [][ (pc = "fold" /\ pos' = pos + 1 /\ ~HasKey(filteredQsos[pos + 1]))
           => dxccData' = dxccData ]_vars

\* With an operator filter active, a record without a DXCC field went
\* through the fold next to a keyed one.
C1_Witness ==
  /\ pc = "done"
  /\ Len(filteredQsos) = 2
  /\ \E i \in 1..2 : ~HasKey(filteredQsos[i]) /\ HasKey(filteredQsos[3 - i])
  /\ filterOperator = tW1AW

\* a and b are the same text up to letter case
EqualsIgnoreCase(a, b) == a # Undefined /\ toUpperCase(a) = toUpperCase(b)

\* Positions of the folded records of entity id on band b.
FoldedOn(id, b) ==
  { i \in FoldedOf(id) : EqualsIgnoreCase(Get(filteredQsos[i], "BAND"), b) }

\* Positions of the folded records of entity id on no recognized band.
FoldedOffBand(id) ==
  { i \in FoldedOf(id) :
      \A b \in BandSet : ~EqualsIgnoreCase(Get(filteredQsos[i], "BAND"), b) }

\* C2: after every prefix of the fold, for every entity and recognized band,
\* the status is 'C' iff some folded record of the entity on that band (its
\* BAND compared case-insensitively) is confirmed, 'W' iff there are such
\* records and none is confirmed, null iff there is none; a status never
\* goes from 'C' to 'W' nor from non-null to null.
C2_BandStatusIsMonotoneSummary ==
  /\ [](\A id \in DOMAIN dxccData : \A b \in BandSet :
          LET on == FoldedOn(id, b)
              anyConfirmed == \E i \in on : isConfirmed(filteredQsos[i])
          IN  /\ dxccData[id].bands[b] = "C" <=> anyConfirmed
              /\ dxccData[id].bands[b] = "W" <=> (on # {} /\ ~anyConfirmed)
              /\ dxccData[id].bands[b] = "null" <=> on = {})
  /\ [][ \A id \in DOMAIN dxccData : \A b \in BandSet :
           /\ dxccData[id].bands[b] = "C" => dxccData'[id].bands[b] = "C"
           /\ dxccData[id].bands[b] # "null" => dxccData'[id].bands[b] # "null" ]_vars

\* An unconfirmed 20m contact was folded after a confirmed one of the same
\* entity, one of them logged as 20M, and the band still reads 'C'.
C2_Witness ==
  /\ pos >= 2
  /\ Get(filteredQsos[pos], "DXCC") = t291
  /\ Get(filteredQsos[pos], "BAND") = t20M
  /\ ~isConfirmed(filteredQsos[pos])
  /\ \E i \in 1..(pos - 1) :
       /\ Get(filteredQsos[i], "DXCC") = t291
       /\ Get(filteredQsos[i], "BAND") = t20m
       /\ isConfirmed(filteredQsos[i])
  /\ dxccData[t291].bands[t20m] = "C"

\* The record sequence qsos reordered by the permutation f of its positions.
Reorder(qsos, f) == [i \in 1..Len(qsos) |-> qsos[f[i]]]

\* C3: every reordering of the loaded records yields the same entity keys
\* and, for every entity and recognized band, the same final band status as
\* the order that was folded.
C3_BandStatusOrderIndependent ==
  pc = "done" =>
    \A f \in Permutations(1..Len(logData)) :
      LET other == analyzeQSOs(Reorder(logData, f), filterMode, filterOperator)
      IN  /\ DOMAIN other = DOMAIN dxccData
          /\ \A id \in DOMAIN dxccData : \A b \in BandSet :
               other[id].bands[b] = dxccData[id].bands[b]

\* Three contacts of one entity on one band were folded, the first
\* confirmed and the last not, next to a second band of the entity.
C3_Witness ==
  /\ pc = "done"
  /\ Len(logData) = 3
  /\ FoldedOn(t291, t20m) = {1, 3}
  /\ FoldedOn(t291, t40m) = {2}
  /\ isConfirmed(logData[1])
  /\ ~isConfirmed(logData[3])
  /\ ~isConfirmed(logData[2])

\* One of platform p's fields of the record is Y or V in either letter case.
PlatformConfirms(qso, p) ==
  \E f \in PlatformFields[p] :
    Get(qso, f) \in { <<"Y">>, <<"y">>, <<"V">>, <<"v">> }

\* C4: after every prefix of the fold, for every entity and platform the
\* whole-entity flag is set iff some folded record of the entity confirms
\* on that platform and platformQsos counts those records; the same holds
\* per recognized band for bandConfirmations and bandPlatformQsos; no flag
\* is ever cleared and no count ever decreases.
C4_PlatformFlagsAndCounts ==
  /\ [](\A id \in DOMAIN dxccData : \A p \in Platforms :
          LET hits == { i \in FoldedOf(id) : PlatformConfirms(filteredQsos[i], p) }
          IN  /\ dxccData[id][p] <=> hits # {}
              /\ dxccData[id].platformQsos[p] = Cardinality(hits)
              /\ \A b \in BandSet :
                   LET bandHits == hits \cap FoldedOn(id, b)
                   IN  /\ dxccData[id].bandConfirmations[b][p] <=> bandHits # {}
                       /\ dxccData[id].bandPlatformQsos[b][p] = Cardinality(bandHits))
  /\ [][ \A id \in DOMAIN dxccData : \A p \in Platforms :
           /\ dxccData[id][p] => dxccData'[id][p]
           /\ dxccData'[id].platformQsos[p] >= dxccData[id].platformQsos[p]
           /\ \A b \in BandSet :
                /\ dxccData[id].bandConfirmations[b][p]
                     => dxccData'[id].bandConfirmations[b][p]
                /\ dxccData'[id].bandPlatformQsos[b][p]
                     >= dxccData[id].bandPlatformQsos[b][p] ]_vars

\* Two LoTW confirmations (one of them 'y' on an unrecognized band), an eQSL
\* 'v' and an upload-only record were folded for one entity.
C4_Witness ==
  /\ pos = 3
  /\ dxccData[t291].platformQsos["lotw"] = 2
  /\ dxccData[t291].bandPlatformQsos[t20m]["lotw"] = 1
  /\ dxccData[t291].qsl
  /\ ~dxccData[t291].bandConfirmations[t20m]["qsl"]
  /\ dxccData[t291].bandConfirmations[t20m]["eqsl"]
  /\ ~dxccData[t291].qrz

RECURSIVE SumBandQsos(_, _)
SumBandQsos(entry, bandsLeft) ==
  IF bandsLeft = {} THEN 0
  ELSE LET b == CHOOSE x \in bandsLeft : TRUE
       IN  entry.bandQsos[b] + SumBandQsos(entry, bandsLeft \ {b})

\* C5: in every aggregate, total is the sum of bandQsos over the recognized
\* bands plus the number of the entity's folded records whose BAND is
\* missing or unrecognized; folding such a record adds one to total and
\* updates the whole-entity platform flags and counts, and leaves the
\* entity's bands, bandQsos, bandConfirmations and bandPlatformQsos alone.
C5_TotalIsBandsPlusOffBand ==
  /\ [](\A id \in DOMAIN dxccData :
          dxccData[id].total
            = SumBandQsos(dxccData[id], BandSet) + Cardinality(FoldedOffBand(id)))
  /\ [][ (pc = "fold" /\ pos' = pos + 1 /\ HasKey(filteredQsos[pos + 1])
            /\ \A b \in BandSet :
                 ~EqualsIgnoreCase(Get(filteredQsos[pos + 1], "BAND"), b))
         => LET qso == filteredQsos[pos + 1]
                id == qso.DXCC
                before == IF id \in DOMAIN dxccData THEN dxccData[id]
                          ELSE NewEntry(dxccData'[id].country, dxccData'[id].cont,
                                        dxccData'[id].deleted)
                after == dxccData'[id]
            IN  /\ after.total = before.total + 1
                /\ \A p \in Platforms :
                     /\ after[p] <=> (before[p] \/ PlatformConfirms(qso, p))
                     /\ after.platformQsos[p]
                          = before.platformQsos[p]
                              + (IF PlatformConfirms(qso, p) THEN 1 ELSE 0)
                /\ after.bands = before.bands
                /\ after.bandQsos = before.bandQsos
                /\ after.bandConfirmations = before.bandConfirmations
                /\ after.bandPlatformQsos = before.bandPlatformQsos ]_vars

\* An entity has contacts on two recognized bands and a LoTW-confirmed one
\* on the unrecognized band 2m.
C5_Witness ==
  /\ pos = 3
  /\ t291 \in DOMAIN dxccData
  /\ dxccData[t291].total = 3
  /\ dxccData[t291].bandQsos[t20m] = 1
  /\ dxccData[t291].bandQsos[t40m] = 1
  /\ \E i \in FoldedOffBand(t291) : Get(filteredQsos[i], "BAND") = t2m
  /\ dxccData[t291].lotw
  /\ \A b \in BandSet : dxccData[t291].bands[b] # "C"

YesOrVerified == { <<"Y">>, <<"y">>, <<"V">>, <<"v">> }

\* The record with its QRZCOM_QSO_UPLOAD_STATUS set to v (removed when v
\* is undefined) and every other field as it was.
WithUploadStatus(qso, v) ==
  [ k \in (DOMAIN qso \ {"QRZCOM_QSO_UPLOAD_STATUS"})
          \cup (IF v = Undefined THEN {} ELSE {"QRZCOM_QSO_UPLOAD_STATUS"}) |->
      IF k = "QRZCOM_QSO_UPLOAD_STATUS" THEN v ELSE qso[k] ]

\* C6: isConfirmed holds of a record iff one of the six fields LOTW_QSL_RCVD,
\* EQSL_QSL_RCVD, QSL_RCVD, QRZCOM_QSL_RCVD, QRZ_QSL_RCVD and
\* QRZCOM_QSO_DOWNLOAD_STATUS is Y or V in either letter case, and the band
\* status the record produces is 'C' exactly then; changing only its
\* QRZCOM_QSO_UPLOAD_STATUS changes neither isConfirmed nor any band status
\* or platform flag of the aggregate it produces.
C6_ConfirmedIffOneOfSixFields ==
  pc = "done" =>
    LET qso == logData[1]
        oneOfSix ==
          \/ Get(qso, "LOTW_QSL_RCVD") \in YesOrVerified
          \/ Get(qso, "EQSL_QSL_RCVD") \in YesOrVerified
          \/ Get(qso, "QSL_RCVD") \in YesOrVerified
          \/ Get(qso, "QRZCOM_QSL_RCVD") \in YesOrVerified
          \/ Get(qso, "QRZ_QSL_RCVD") \in YesOrVerified
          \/ Get(qso, "QRZCOM_QSO_DOWNLOAD_STATUS") \in YesOrVerified
    IN  /\ isConfirmed(qso) <=> oneOfSix
        /\ dxccData[t291].bands[t20m] = IF oneOfSix THEN "C" ELSE "W"
        /\ \A v \in ConfValues :
             LET twin == WithUploadStatus(qso, v)
                 other == analyzeQSOs(<<twin>>, filterMode, filterOperator)
             IN  /\ isConfirmed(twin) = isConfirmed(qso)
                 /\ other[t291].bands = dxccData[t291].bands
                 /\ other[t291].bandConfirmations = dxccData[t291].bandConfirmations
                 /\ \A p \in Platforms : other[t291][p] = dxccData[t291][p]

\* A record whose only Y is its upload status was folded: the band is
\* worked, not confirmed, and no platform flag is set.
C6_Witness ==
  /\ pc = "done"
  /\ Get(logData[1], "QRZCOM_QSO_UPLOAD_STATUS") = <<"Y">>
  /\ Get(logData[1], "LOTW_QSL_RCVD") = <<"N">>
  /\ \A f \in confirmFields : Get(logData[1], f) \notin YesOrVerified
  /\ dxccData[t291].bands[t20m] = "W"
  /\ ~dxccData[t291].qrz

\* The first folded record of entity id.
FirstOf(id) == filteredQsos[CHOOSE i \in FoldedOf(id) : \A j \in FoldedOf(id) : i <= j]

\* C7: when the record that creates an aggregate carries a non-empty CONT
\* and the lookup table has a continent for its identifier, the aggregate's
\* continent is the table's; the record's CONT is used only when the table
\* has none.
C7_LookupContinentHasPriority ==
  \A id \in DOMAIN dxccData :
    dxccData[id].cont =
      IF Truthy(lookupCont(id)) THEN lookupCont(id)
      ELSE IF Truthy(Get(FirstOf(id), "CONT")) THEN Get(FirstOf(id), "CONT")
      ELSE << >>

\* C8: the name of an aggregate is the COUNTRY of the first folded record of
\* the entity when non-empty, else the lookup table's name, else "Unknown";
\* later records of the entity change neither name, continent nor deleted
\* flag; an identifier the table does not list still gets an aggregate, with
\* name "Unknown" when COUNTRY is missing, continent "" when CONT is missing
\* and deleted = false.
C8_NameFromFirstRecord ==
  /\ [](\A id \in DOMAIN dxccData :
          LET first == FirstOf(id)
              listed == id \in DOMAIN DXCC_ENTITIES
          IN  /\ dxccData[id].country =
                   IF Truthy(Get(first, "COUNTRY")) THEN first.COUNTRY
                   ELSE IF listed THEN DXCC_ENTITIES[id].name
                   ELSE Unknown
              /\ ~listed =>
                   /\ ~Truthy(Get(first, "COUNTRY")) => dxccData[id].country = Unknown
                   /\ ~Truthy(Get(first, "CONT")) => dxccData[id].cont = << >>
                   /\ dxccData[id].deleted = FALSE)
  /\ [](\A i \in 1..pos : HasKey(filteredQsos[i]) => filteredQsos[i].DXCC \in DOMAIN dxccData)
  /\ [][ \A id \in DOMAIN dxccData :
           /\ dxccData'[id].country = dxccData[id].country
           /\ dxccData'[id].cont = dxccData[id].cont
           /\ dxccData'[id].deleted = dxccData[id].deleted ]_vars

\* An unlisted identifier was folded first without COUNTRY and CONT and then
\* again with both, next to a listed entity named by the table.
C8_Witness ==
  /\ pos = 3
  /\ ~Truthy(Get(filteredQsos[1], "COUNTRY"))
  /\ ~Truthy(Get(filteredQsos[1], "CONT"))
  /\ Get(filteredQsos[1], "DXCC") = t999
  /\ Get(filteredQsos[2], "DXCC") = t999
  /\ Get(filteredQsos[2], "COUNTRY") = <<"X">>
  /\ Get(filteredQsos[2], "CONT") = <<"A","S">>
  /\ dxccData[t999].country = Unknown
  /\ dxccData[t999].cont = << >>
  /\ t229 \in DOMAIN dxccData
  /\ dxccData[t229].country = <<"G","D","R">>
  /\ dxccData[t229].deleted

\* text is token, or token followed by a space and a suffix
TokenOrQualified(text, token) == text = token \/ startsWith(text, token \o <<" ">>)

InVocabulary(text, tokens) == \E i \in 1..Len(tokens) : TokenOrQualified(text, tokens[i])

\* The upper-cased, trimmed text categorizeMode decides on.
Decided(m) == IF Truthy(m) THEN trim(toUpperCase(m)) ELSE << >>

\* C9 as stated: digital iff the text is a Digital token or such a token
\* followed by a space and a suffix; otherwise cw, ssb in that order on the
\* same test; otherwise unknown.
C9_AsStated ==
  category # "pending" =>
    LET text == Decided(mode)
        digital == InVocabulary(text, MODE_CATEGORIES.digital)
        cw == InVocabulary(text, MODE_CATEGORIES.cw)
        ssb == InVocabulary(text, MODE_CATEGORIES.ssb)
    IN  category = IF digital THEN "digital"
                   ELSE IF cw THEN "cw"
                   ELSE IF ssb THEN "ssb"
                   ELSE "unknown"

\* C9 (amended): categorizeMode returns exactly one of digital, cw, ssb,
\* unknown, decided on the upper-cased trimmed text: digital iff the text
\* contains a Digital token anywhere; otherwise cw iff it is CW or CW
\* followed by a space and a suffix; otherwise ssb iff it is an SSB token or
\* one followed by a space and a suffix; otherwise unknown, which includes
\* the empty and the missing mode.
C9_DigitalBySubstring ==
  category # "pending" =>
    LET text == Decided(mode)
        digital == \E i \in 1..Len(MODE_CATEGORIES.digital) :
                     includes(text, MODE_CATEGORIES.digital[i])
        cw == InVocabulary(text, MODE_CATEGORIES.cw)
        ssb == InVocabulary(text, MODE_CATEGORIES.ssb)
    IN  /\ category \in {"digital", "cw", "ssb", "unknown"}
        /\ category = "digital" <=> digital
        /\ category = "cw" <=> (~digital /\ cw)
        /\ category = "ssb" <=> (~digital /\ ~cw /\ ssb)
        /\ category = "unknown" <=> (~digital /\ ~cw /\ ~ssb)
        /\ ~Truthy(mode) => category = "unknown"

\* A text that only contains a Digital token (behind other characters) has
\* been classified digital.
C9_Witness ==
  /\ mode = <<"c","F","T","8">>
  /\ category = "digital"

\* STATION_CALLSIGN when it is non-empty, OPERATOR otherwise ('' when the
\* record has neither), upper-cased.
C10_Call(qso) ==
  IF Get(qso, "STATION_CALLSIGN") \notin {Undefined, << >>}
  THEN toUpperCase(qso.STATION_CALLSIGN)
  ELSE IF Get(qso, "OPERATOR") \notin {Undefined, << >>}
  THEN toUpperCase(qso.OPERATOR)
  ELSE << >>

C10_Passes(qso) ==
  /\ filterMode = "all" \/ categorizeMode(Get(qso, "MODE")) = filterMode
  /\ filterOperator = All \/ C10_Call(qso) = filterOperator

\* C10: the records analyzeQSOs folds are exactly, and in file order, the
\* records whose mode category equals the mode filter (or the filter is
\* 'all') and whose upper-cased resolved callsign equals the operator
\* filter (or the filter is 'all'); with an operator filter no record
\* without both callsign fields is folded, with a mode filter no record of
\* unknown mode is, and the fold visits every one of them before returning.
C10_FoldedAreTheMatchingRecords ==
  pc \in {"fold", "done"} =>
    /\ filteredQsos = SelectSeq(logData, C10_Passes)
    /\ pc = "done" => pos = Len(filteredQsos)
    /\ filterOperator # All =>
         \A i \in 1..Len(filteredQsos) :
           \/ Truthy(Get(filteredQsos[i], "STATION_CALLSIGN"))
           \/ Truthy(Get(filteredQsos[i], "OPERATOR"))
    /\ filterMode # "all" =>
         \A i \in 1..Len(filteredQsos) :
           categorizeMode(Get(filteredQsos[i], "MODE")) # "unknown"

\* Under mode filter cw and operator filter W1AW a CW record that names
\* W1AW only as OPERATOR (its STATION_CALLSIGN is empty) was folded, and a
\* CW record with STATION_CALLSIGN DK9RC and OPERATOR w1aw was not.
C10_Witness ==
  /\ pc = "done"
  /\ filterMode = "cw"
  /\ filterOperator = tW1AW
  /\ Len(logData) = 2
  /\ Len(filteredQsos) = 1
  /\ Get(filteredQsos[1], "STATION_CALLSIGN") = << >>
  /\ Get(filteredQsos[1], "OPERATOR") = <<"w","1","a","w">>
  /\ \E i \in 1..2 :
       /\ Get(logData[i], "STATION_CALLSIGN") = tDK9RC
       /\ Get(logData[i], "OPERATOR") = <<"w","1","a","w">>
       /\ Get(logData[i], "MODE") = <<"C","W">>

\* The files the upload control is given.
Files == {FileA, FileB, FileBig}

\* C19: whenever a file is loaded, no read is in flight and a file name is
\* displayed, that name is the name of the file whose content produced the
\* loaded records; so after two overlapping loads, whichever read callback
\* runs last, the records are those of the file chosen last.
C19_NameMatchesLoadedData ==
  (loaded /\ pendingReads = {} /\ Truthy(fileName)) =>
    \E file \in Files : file.name = fileName /\ file.qsos = logData

\* C12: the visible entities are exactly the aggregates that pass every
\* active filter: search term in the lower-cased name or in the identifier,
\* continent, worked or confirmed on the filtered band, confirmed via the
\* filtered platform (on the filtered band, if any), and the display mode
\* judged on the filtered band or else on all ten bands.
C12_VisibleSetIsFilterConjunction ==
  loaded =>
    filteredIds =
      { id \in DOMAIN analyzedData :
          LET e == analyzedData[id]
              considered == IF filterBand = All THEN BandSet ELSE {filterBand}
          IN  /\ searchTerm # << >> =>
                   \/ includes(toLowerCase(e.country), toLowerCase(searchTerm))
                   \/ includes(id, toLowerCase(searchTerm))
              /\ filterContinent # All => e.cont = filterContinent
              /\ filterBand # All => e.bands[filterBand] \in {"W", "C"}
              /\ filterConfirmation # "all" =>
                   IF filterBand # All
                   THEN e.bandConfirmations[filterBand][filterConfirmation]
                   ELSE e[filterConfirmation]
              /\ filterStatus = "confirmed" =>
                   \E b \in considered : e.bands[b] = "C"
              /\ filterStatus = "worked" =>
                   /\ \A b \in considered : e.bands[b] # "C"
                   /\ \E b \in considered : e.bands[b] = "W" }

\* Worked-only view with a search term: an entity confirmed on one band and
\* only worked on another is hidden while a worked-only entity is shown.
C12_Witness ==
  /\ loaded
  /\ filterStatus = "worked"
  /\ searchTerm # << >>
  /\ filteredIds # {}
  /\ \E id \in DOMAIN analyzedData \ filteredIds :
       /\ includes(id, toLowerCase(searchTerm))
       /\ \E b \in BandSet : analyzedData[id].bands[b] = "C"
       /\ \E b \in BandSet : analyzedData[id].bands[b] = "W"

\* C14: for every aggregate and every band and platform filter, the shown
\* contact count is the band-and-platform count when both filters are set,
\* the band count under a band filter alone, the platform count under a
\* platform filter alone and `total` otherwise; it never exceeds `total`;
\* the shown platform checkmark is the per-band flag under a band filter
\* and the entity's flag otherwise.
C14_DisplayedCountAndCheckmark ==
  loaded =>
    \A id \in DOMAIN analyzedData :
      LET e == analyzedData[id]
          bandSet == filterBand # All
          platformSet == filterConfirmation # "all"
      IN  /\ (bandSet /\ platformSet) =>
                getDisplayQsos(e) = e.bandPlatformQsos[filterBand][filterConfirmation]
          /\ (bandSet /\ ~platformSet) => getDisplayQsos(e) = e.bandQsos[filterBand]
          /\ (~bandSet /\ platformSet) =>
                getDisplayQsos(e) = e.platformQsos[filterConfirmation]
          /\ (~bandSet /\ ~platformSet) => getDisplayQsos(e) = e.total
          /\ getDisplayQsos(e) <= e.total
          /\ \A p \in Platforms :
                getDisplayConfirmation(e, p) =
                  IF bandSet THEN e.bandConfirmations[filterBand][p] ELSE e[p]

\* A band and a platform filter together show fewer contacts than `total`
\* for an entity that still has some.
C14_Witness ==
  /\ loaded
  /\ filterBand # All
  /\ filterConfirmation # "all"
  /\ \E id \in DOMAIN analyzedData :
       /\ getDisplayQsos(analyzedData[id]) > 0
       /\ getDisplayQsos(analyzedData[id]) < analyzedData[id].total

\* C15: under a platform filter p the shown status of band b is 'C' exactly
\* when p confirmed a contact on b, else 'W' exactly when b has contacts,
\* else none; without a platform filter it is the stored status; a band
\* without contacts is never shown as worked or confirmed.
C15_DisplayedBandStatus ==
  loaded =>
    \A id \in DOMAIN analyzedData : \A b \in BandSet :
      LET e == analyzedData[id]
          shown == getDisplayBandStatus(e, b)
      IN  /\ filterConfirmation # "all" =>
                LET viaP == e.bandConfirmations[b][filterConfirmation]
                IN  /\ shown = "C" <=> viaP
                    /\ shown = "W" <=> (~viaP /\ e.bandQsos[b] > 0)
                    /\ shown = "null" <=> (~viaP /\ e.bandQsos[b] = 0)
          /\ filterConfirmation = "all" => shown = e.bands[b]
          /\ shown \in {"W", "C"} => e.bandQsos[b] > 0

\* A band confirmed via one platform is shown as only worked while the view
\* is filtered by another platform.
C15_Witness ==
  /\ loaded
  /\ filterConfirmation # "all"
  /\ \E id \in DOMAIN analyzedData : \E b \in BandSet :
       /\ analyzedData[id].bands[b] = "C"
       /\ getDisplayBandStatus(analyzedData[id], b) = "W"

\* The rate r, in tenths of a percent, is confirmed * 100 / worked rounded
\* to one decimal.
IsRate(r, confirmed, worked) ==
  IF worked = 0 THEN r = 0
  ELSE /\ 2 * worked * r - 2000 * confirmed <= worked
       /\ 2000 * confirmed - 2 * worked * r <= worked

\* The spec's worked example: three contacts, two entities, one confirmed.
ExampleLoaded ==
  loaded /\ logData = FileA.qsos /\ filterMode = "all" /\ filterOperator = All

\* C16: both for the aggregates of the pre-filtered log and for the visible
\* entities, worked is the number of entities, confirmed the number of them
\* with a confirmed band among the bands under consideration, confirmed is
\* at most worked, and the rate is 0 without entities and otherwise
\* confirmed * 100 / worked to one decimal; the example log gives 2, 1, 50.0.
C16_CountersAtBothScopes ==
  loaded =>
    LET considered == IF filterBand = All THEN BandSet ELSE {filterBand}
        confirmedIn(ids, bands) ==
          { id \in ids : \E b \in bands : analyzedData[id].bands[b] = "C" }
    IN  /\ stats.worked = Cardinality(DOMAIN analyzedData)
        /\ stats.confirmed = Cardinality(confirmedIn(DOMAIN analyzedData, BandSet))
        /\ 0 <= stats.confirmed /\ stats.confirmed <= stats.worked
        /\ IsRate(stats.percentage, stats.confirmed, stats.worked)
        /\ filteredStats.worked = Cardinality(filteredIds)
        /\ filteredStats.confirmed = Cardinality(confirmedIn(filteredIds, considered))
        /\ 0 <= filteredStats.confirmed
        /\ filteredStats.confirmed <= filteredStats.worked
        /\ IsRate(filteredStats.percentage, filteredStats.confirmed,
                  filteredStats.worked)
        /\ ExampleLoaded =>
              stats.worked = 2 /\ stats.confirmed = 1 /\ stats.percentage = 500

\* The example log narrowed by a filter: the visible entities are fewer than
\* the aggregates and their rate differs from the overall 50.0.
C16_Witness ==
  /\ ExampleLoaded
  /\ stats.worked = 2
  /\ filteredStats.worked = 1
  /\ filteredStats.percentage # stats.percentage

\* C17: the totals behind "of N total" are those of the loaded file with no
\* filter applied, whatever the seven filters are set to.
C17_TotalsFixedByFile ==
  loaded => stats = statsOf(analyzeQSOs(logData, "all", All))

\* The events that act on the aggregates already built.
PostAggregationEvent ==
  \/ SetSearchTerm({<< >>, <<"9">>})
  \/ SetFilterStatus({"all", "confirmed"})
  \/ SetFilterContinent
  \/ SetFilterConfirmation({"lotw"})
  \/ SetFilterBand({t20m})
  \/ HandleSort({tCountry, tQsos})
  \/ ToggleCharts
  \/ PreviousPage
  \/ NextPage
  \/ SetItemsPerPage({10, 15})

\* C18: while a file is loaded the aggregates are analyzeQSOs of the parsed
\* records under the current mode and operator filters; search, status,
\* continent, platform, band, sort, page, page size and chart events leave
\* the records and the aggregates as they are; and the records of a loaded
\* file are replaced only by the completion of a file read.
C18_AggregatesFollowPreFiltersOnly ==
  /\ [](loaded => analyzedData = analyzeQSOs(logData, filterMode, filterOperator))
  /\ [][PostAggregationEvent => UNCHANGED << logData, analyzedData >>]_vars
  /\ [][(loaded' /\ logData' # logData) => ReaderOnLoad]_vars

\* An operator filter is active, the second page of a sorted table is shown
\* and the aggregates hold fewer contacts than the log.
C18_Witness ==
  /\ loaded
  /\ filterOperator # All
  /\ sortColumn # tCountry
  /\ showCharts
  /\ stats.totalQSOs > 0
  /\ stats.totalQSOs < Len(logData)

\* C20: from ('country', 'asc'), a click on another column selects it with
\* direction 'desc' for a band, platform or contact-count column and 'asc'
\* for the other columns; a click on the current column keeps it and flips
\* the direction; either way the page becomes 1 and no filter changes.
C20_SortStateMachine ==
  /\ sortColumn = tCountry /\ sortDirection = "asc"
  /\ [][\A c \in SortColumns :
          handleSort(c) =>
            /\ IF c # sortColumn
               THEN /\ sortColumn' = c
                    /\ sortDirection' =
                         IF c \in BandSet \cup {tLotw, tEqsl, tQrz, tQsl, tQsos}
                         THEN "desc" ELSE "asc"
               ELSE /\ sortColumn' = sortColumn
                    /\ sortDirection' = IF sortDirection = "asc" THEN "desc" ELSE "asc"
            /\ currentPage' = 1
            /\ UNCHANGED << filterMode, filterOperator, postFilterVars >>]_vars

\* The contact-count column was clicked twice: it is sorted ascending and
\* the table, with a band filter set, is back on its first page.
C20_Witness ==
  /\ sortColumn = tQsos
  /\ sortDirection = "asc"
  /\ filterBand # All
  /\ currentPage = 1
  /\ totalPages > 1

\* Text a is a date of eight digits that is not after date b.
NotAfter(a, b) ==
  \A i \in 1..8 : a[i] # b[i] =>
    \E j \in 1..i : /\ \A k \in 1..(j - 1) : a[k] = b[k]
                    /\ DigitOf[a[j]] < DigitOf[b[j]]

\* C11: with a date range set, every record that enters aggregation has a
\* date of eight digits that lies between the ends of the range, both
\* included; a record whose date is present but is not eight digits never
\* enters, and an entity is aggregated only from records that entered.
C11_DateRangeFailsClosed ==
  (pc \in {"fold", "done"} /\ (Truthy(filterDateFrom) \/ Truthy(filterDateTo))) =>
    /\ \A i \in 1..Len(filteredQsos) :
         LET d == Get(filteredQsos[i], "QSO_DATE")
         IN  /\ d # Undefined
             /\ Len(d) = 8
             /\ \A k \in 1..8 : d[k] \in DOMAIN DigitOf
             /\ Truthy(filterDateFrom) => NotAfter(filterDateFrom, d)
             /\ Truthy(filterDateTo) => NotAfter(d, filterDateTo)
    /\ SumTotal(dxccData, DOMAIN dxccData) <= Len(filteredQsos)

\* A log with a malformed date and a date inside the range was aggregated
\* under the range: one record was dropped, one was counted.
C11_Witness ==
  /\ pc = "done"
  /\ Truthy(filterDateFrom)
  /\ Truthy(filterDateTo)
  /\ Len(logData) = 2
  /\ \E i \in 1..2 :
       LET d == Get(logData[i], "QSO_DATE")
       IN  d # Undefined /\ (Len(d) # 8 \/ ~isDigits(d))
  /\ SumTotal(dxccData, DOMAIN dxccData) = 1

\* C13: under Not Worked the visible entities are, without a band filter,
\* the non-retired lookup entities that are not aggregated; with a band
\* filter b also the non-retired ones aggregated without a contact on b,
\* so entity 291 of the example log, met on 20m only, is listed under 40m;
\* a retired entity is never listed.
C13_NotWorkedIsComplement ==
  (loaded /\ filterStatus = "notworked") =>
    LET active == { id \in DOMAIN DXCC_ENTITIES : ~lookupDeleted(id) }
        absent == { id \in active : id \notin DOMAIN analyzedData }
        idleOn(b) == { id \in active \cap DOMAIN analyzedData :
                         analyzedData[id].bands[b] \notin {"W", "C"} }
    IN  /\ filterBand = All => visibleIds = absent
        /\ filterBand # All => visibleIds = absent \cup idleOn(filterBand)
        /\ \A id \in visibleIds : ~lookupDeleted(id)
        /\ (ExampleLoaded /\ filterBand = t40m) => t291 \in visibleIds

\* The example log under band 40m and Not Worked: entity 291 is aggregated
\* and listed as not worked.
C13_Witness ==
  /\ ExampleLoaded
  /\ filterStatus = "notworked"
  /\ filterBand = t40m
  /\ t291 \in DOMAIN analyzedData
  /\ t291 \in visibleIds

\* The entities the statistics and the continent chart count as confirmed.
CountedConfirmed ==
  { id \in filteredIds :
      \E b \in bandsToCheck : analyzedData[id].bands[b] = "C" }

\* C26: under every platform and band filter, an entity that is listed
\* under status Confirmed, or counted as confirmed by the filtered
\* statistics and the continent chart, is shown with status 'C' on at least
\* one of the bands under consideration.
C26_ConfirmedEntitiesShowC ==
  loaded =>
    /\ filteredStats.confirmed = Cardinality(CountedConfirmed)
    /\ SumOver([c \in DOMAIN continentData |-> continentData[c].confirmed],
               DOMAIN continentData) = Cardinality(CountedConfirmed)
    /\ filterStatus = "confirmed" => filteredIds = CountedConfirmed
    /\ \A id \in CountedConfirmed :
         \E b \in (IF filterBand = All THEN BandSet ELSE {filterBand}) :
           getDisplayBandStatus(analyzedData[id], b) = "C"

\* The entities that pass the search, continent, band and platform filters
\* and the status filter of the given mode.
visibleUnder(status) ==
  { id \in DOMAIN analyzedData :
      /\ passesSearch(id, analyzedData[id])
      /\ passesContinent(analyzedData[id])
      /\ passesBand(analyzedData[id])
      /\ passesPlatform(analyzedData[id])
      /\ passesStatusIn(analyzedData[id], status) }

\* C30: for fixed search, continent, band and platform filters, the entities
\* listed under Confirmed and those listed under Worked Only are disjoint
\* and together are the entities listed under All.
C30_StatusModesPartitionAll ==
  loaded =>
    /\ visibleUnder(filterStatus) = filteredIds
    /\ visibleUnder("confirmed") \cap visibleUnder("worked") = {}
    /\ visibleUnder("confirmed") \cup visibleUnder("worked") = visibleUnder("all")

\* C29: every visible entity is shown with at least one contact, so the
\* filtered contact total is at least the filtered entity count, and no
\* filtered counter exceeds its counterpart over all aggregates.
C29_VisibleEntitiesHaveContacts ==
  loaded =>
    /\ \A id \in filteredIds : getDisplayQsos(analyzedData[id]) >= 1
    /\ filteredStats.totalQSOs >= filteredStats.worked
    /\ filteredStats.totalQSOs <= stats.totalQSOs
    /\ filteredStats.worked <= stats.worked
    /\ filteredStats.confirmed <= stats.confirmed

\* A band and a platform filter narrow the table to one entity shown with
\* fewer contacts than it has in all.
C29_Witness ==
  /\ loaded
  /\ filterBand # All
  /\ filterConfirmation # "all"
  /\ filteredIds # {}
  /\ filteredStats.totalQSOs < stats.totalQSOs
  /\ filteredStats.worked < stats.worked

\* C27: whenever a log is loaded, the operator filter is 'all' or one of the
\* callsigns the loaded log offers, and the continent filter is 'all' or one
\* of the continents the current aggregates offer.
C27_FiltersOfferedByData ==
  loaded =>
    /\ filterOperator \in {All} \cup availableOperators
    /\ filterContinent \in {All} \cup availableContinents

\* A step that changes a filter, the sort or the page size, or that completes
\* the read of a file.
PageResettingStep ==
  \/ postFilterVars' # postFilterVars
  \/ filterMode' # filterMode
  \/ filterOperator' # filterOperator
  \/ sortVars' # sortVars
  \/ itemsPerPage' # itemsPerPage
  \/ pendingReads' # pendingReads /\ pendingReads' \subseteq pendingReads

\* C28: while a log is loaded and the filtered set is not empty the current
\* page lies between 1 and the number of pages, and every filter change, sort
\* click, page-size change and completed file load sets the current page to 1.
C28_PageWithinRange ==
  /\ [](loaded /\ filteredEntries # << >> =>
          currentPage >= 1 /\ currentPage <= totalPages)
  /\ [][PageResettingStep => currentPage' = 1]_vars

\* The last of several pages is shown, under a sort and a page size chosen
\* by the user.
C28_Witness ==
  /\ loaded
  /\ totalPages > 1
  /\ currentPage = totalPages
  /\ sortDirection = "desc"
  /\ pendingReads # {}

\* The largest combined count of the whole matrix, at least 1.
MatrixMax ==
  LET rowMax == [cont \in DOMAIN heatmapData |-> maxVal(heatmapData[cont])]
  IN  Max(1, MaxOver(rowMax, DOMAIN rowMax))

\* The filtered entities of a continent shown with a status on a band.
ShownWith(cont, band, status) ==
  { id \in filteredIds :
      /\ analyzedData[id].cont = cont
      /\ getDisplayBandStatus(analyzedData[id], band) = status }

\* C25, amended: each cell of the continent x band matrix has its confirmed
\* plus its worked count as combined count, and its colour intensity is that
\* count divided by the largest combined count of the cells of its own row
\* (at least 1), so a cell has intensity 1 only if no cell of its row has a
\* larger count.
C25_IntensityRelativeToRowMax ==
  loaded /\ filteredEntries # << >> =>
    \A cont \in DOMAIN heatmapData : \A band \in bandsToShow :
      LET cell == heatmapData[cont][band]
          i == intensity(cont, band)
      IN  /\ cell.c = Cardinality(ShownWith(cont, band, "C"))
          /\ cell.w = Cardinality(ShownWith(cont, band, "W"))
          /\ cell.total = cell.c + cell.w
          /\ i.num = cell.total
          /\ i.den >= 1
          /\ \A other \in bandsToShow : i.den >= heatmapData[cont][other].total
          /\ \/ i.den = 1
             \/ \E other \in bandsToShow : i.den = heatmapData[cont][other].total

\* Two rows with different largest cells: a cell has intensity 1 although a
\* cell of another row holds a larger count.
C25_Witness ==
  /\ loaded
  /\ \E cont \in DOMAIN heatmapData : \E band \in bandsToShow :
       /\ intensity(cont, band).num = intensity(cont, band).den
       /\ intensity(cont, band).num < MatrixMax

\* C25 as stated: each cell of the continent x band matrix has its confirmed
\* plus its worked count as combined count, and its colour intensity is that
\* count divided by the largest combined count of the whole matrix (at least 1).
C25_IntensityRelativeToMatrixMax ==
  loaded /\ filteredEntries # << >> =>
    \A cont \in DOMAIN heatmapData : \A band \in bandsToShow :
      LET cell == heatmapData[cont][band]
          i == intensity(cont, band)
      IN  /\ cell.total = cell.c + cell.w
          /\ i.num * MatrixMax = cell.total * i.den

\* The positions of the record ends of a text, in any spelling.
EorAt(text) ==
  { i \in 1..(Len(text) - 4) : toLowerCase(SubSeq(text, i, i + 4)) = tEor }

\* The k-th smallest member of a set of numbers.
Nth(S, k) == CHOOSE i \in S : Cardinality({ j \in S : j < i }) = k - 1

\* The k-th chunk of a text: what lies between two neighbouring record ends.
Chunk(text, k) ==
  LET E == EorAt(text)
      first == IF k = 1 THEN 1 ELSE Nth(E, k - 1) + 5
      last == IF k = Cardinality(E) + 1 THEN Len(text) ELSE Nth(E, k) - 1
  IN  SubSeq(text, first, last)

\* The positions of a chunk where a well-formed tag stands.
TagsIn(chunk) == { i \in 1..Len(chunk) : matchAt(chunk, i).found }

\* The chunks that hold a well-formed tag.
Tagged(text) ==
  { k \in 1..(Cardinality(EorAt(text)) + 1) : TagsIn(Chunk(text, k)) # {} }

\* The last tag of a chunk that stores the given key.
LastTag(chunk, key) ==
  LET same == { i \in TagsIn(chunk) : toUpperCase(matchAt(chunk, i).name) = key }
  IN  matchAt(chunk, CHOOSE i \in same : \A j \in same : j <= i)

\* C23: the value stored for a tag has at most as many characters as the tag
\* declares, for every declared length including 0, has no blank at either
\* end, and holds nothing that follows the declared number of characters.
C23_StoredValueWithinDeclaredLength ==
  pc = "parsed" =>
    \A j \in 1..Len(logData) : \A key \in DOMAIN logData[j] :
      LET tag == LastTag(Chunk(content, Nth(Tagged(content), j)), key)
          declared == parseInt(tag.length)
          value == logData[j][key]
      IN  /\ Len(value) <= declared
          /\ value = trim(value)
          /\ value = trim(SubSeq(tag.rawValue, 1, Min(declared, Len(tag.rawValue))))

\* C23, amended: for a declared length above 0 the stored value has at most
\* that many characters, no blank at either end and nothing that follows
\* the declared number of characters; for the declared length 0 nothing is
\* cut off and the whole captured text is stored without its outer blanks.
C23_StoredValueWithinPositiveLength ==
  pc = "parsed" =>
    \A j \in 1..Len(logData) : \A key \in DOMAIN logData[j] :
      LET tag == LastTag(Chunk(content, Nth(Tagged(content), j)), key)
          declared == parseInt(tag.length)
          value == logData[j][key]
      IN  /\ value = trim(value)
          /\ declared > 0 =>
               /\ Len(value) <= declared
               /\ value = trim(SubSeq(tag.rawValue, 1,
                                       Min(declared, Len(tag.rawValue))))
          /\ declared = 0 => value = trim(tag.rawValue)

\* One stored value was cut to its declared length and one tag of declared
\* length 0 stored the text that follows it.
C23_Witness ==
  /\ pc = "parsed"
  /\ \E j \in 1..Len(logData) : \E key \in DOMAIN logData[j] :
       LET tag == LastTag(Chunk(content, Nth(Tagged(content), j)), key)
       IN  /\ parseInt(tag.length) > 0
           /\ Len(tag.rawValue) > parseInt(tag.length)
           /\ Len(logData[j][key]) < Len(trim(tag.rawValue))
  /\ \E j \in 1..Len(logData) : \E key \in DOMAIN logData[j] :
       LET tag == LastTag(Chunk(content, Nth(Tagged(content), j)), key)
       IN  parseInt(tag.length) = 0 /\ logData[j][key] # << >>

\* C24: parseADIF returns one record for each chunk between record ends (in
\* any spelling) that holds a well-formed tag, in the order of the text, and
\* none for the other chunks; a record's keys are the upper-cased names of
\* the well-formed tags of its chunk, so a malformed tag adds no key; every
\* search for the next tag ends beyond where it began.
C24_OneRecordPerTaggedChunk ==
  /\ [](pc = "parsed" =>
         /\ Len(logData) = Cardinality(Tagged(content))
         /\ \A j \in 1..Len(logData) :
              LET chunk == Chunk(content, Nth(Tagged(content), j))
              IN  /\ DOMAIN logData[j] =
                       { toUpperCase(matchAt(chunk, i).name) : i \in TagsIn(chunk) }
                  /\ \A key \in DOMAIN logData[j] : key = toUpperCase(key))
  /\ [][pc = "exec" /\ pc' = "exec" => lastIndex' > lastIndex]_vars

\* A record end in mixed case closes a chunk whose malformed tag is dropped
\* and whose well-formed tag is kept, under its upper-cased name.
C24_Witness ==
  /\ pc = "parsed"
  /\ Len(logData) = 1
  /\ \E i \in EorAt(content) : SubSeq(content, i, i + 4) # tEor
  /\ \E i \in 1..Len(Chunk(content, 1)) :
       Chunk(content, 1)[i] = "<" /\ i \notin TagsIn(Chunk(content, 1))
  /\ DOMAIN logData[1] = { <<"A">> }

\* text.split(separator) for a separator of one character.
RECURSIVE splitOn(_, _)
splitOn(text, sep) ==
  LET hits == { i \in 1..Len(text) : text[i] = sep }
  IN  IF hits = {} THEN << text >>
      ELSE LET i == CHOOSE x \in hits : \A y \in hits : x <= y
           IN  << SubSeq(text, 1, i - 1) >> \o splitOn(SubSeq(text, i + 1, Len(text)), sep)

\* The lines of the exported text.
ExportLines == splitOn(exportToCSV, "\n")

\* The status a table cell shows, as the text of an export column.
ShownStatus(id, band) ==
  LET st == getDisplayBandStatus(analyzedData[id], band)
  IN  IF st = "null" THEN << >> ELSE << st >>

\* From line headerAt on, the export holds the column header and one line
\* for each entity of the whole filtered set, in the order of filteredData,
\* with the displayed contact count, band statuses and platform values.
ExportShape(lines, headerAt, sorted) ==
  /\ Len(lines) = headerAt + Len(filteredEntries)
  /\ splitOn(lines[headerAt], ",") = exportHeaders
  /\ \A k \in 1..Len(filteredEntries) :
       LET f == splitOn(lines[headerAt + k], ",")
           id == sorted[k]
           data == analyzedData[id]
       IN  /\ Len(f) = Len(exportHeaders)
           /\ f[1] = id
           /\ f[5] = String(getDisplayQsos(data))
           /\ \A i \in 1..Len(BANDS) : f[5 + i] = ShownStatus(id, BANDS[i])
           /\ f[16] = (IF getDisplayConfirmation(data, "lotw") THEN tYes ELSE tNo)
           /\ f[17] = (IF getDisplayConfirmation(data, "eqsl") THEN tYes ELSE tNo)
           /\ f[18] = (IF getDisplayConfirmation(data, "qrz") THEN tYes ELSE tNo)
           /\ f[19] = (IF getDisplayConfirmation(data, "qsl") THEN tYes ELSE tNo)

\* The sequence holds the filtered entities once each, ordered by the sort
\* column in the sort direction, ties in the order of the identifiers.
InSortOrder(sorted) ==
  /\ Len(sorted) = Len(filteredEntries)
  /\ { sorted[i] : i \in 1..Len(sorted) } = filteredIds
  /\ \A i, j \in 1..Len(sorted) :
       i < j => /\ directed(sorted[i], sorted[j]) <= 0
                /\ directed(sorted[i], sorted[j]) = 0 =>
                     parseInt(sorted[i]) < parseInt(sorted[j])

\* The summary line names every active filter.
SummaryNamesFilters(line) ==
  /\ startsWith(line, <<"F","i","l","t","e","r","e","d"," ","b","y",":"," ">>)
  /\ Truthy(searchTerm) => includes(line, <<"S","e","a","r","c","h",":"," ">> \o searchTerm)
  /\ filterStatus # "all" => includes(line, <<"S","t","a","t","u","s",":"," ">> \o statusLabel[filterStatus])
  /\ filterMode # "all" => includes(line, <<"M","o","d","e",":"," ">> \o modeLabel[filterMode])
  /\ filterOperator # All => includes(line, <<"O","p","e","r","a","t","o","r",":"," ">> \o filterOperator)
  /\ filterContinent # All => includes(line, <<"C","o","n","t","i","n","e","n","t",":"," ">> \o filterContinent)
  /\ filterConfirmation # "all" =>
       includes(line, <<"P","l","a","t","f","o","r","m",":"," ">> \o confirmationLabel[filterConfirmation])
  /\ filterBand # All => includes(line, <<"B","a","n","d",":"," ">> \o filterBand)

\* C21 as stated: whatever the page and the page size, the export is a first
\* line that is blank without active filter and else a summary naming every
\* active filter, then the column header, then one line per entity of the
\* whole filtered set in the current sort order with the displayed values.
C21_ExportBlankLineThenHeader ==
  loaded /\ filteredEntries # << >> =>
    LET sorted == filteredData
        lines == ExportLines
    IN  /\ InSortOrder(sorted)
        /\ IF hasActiveFilters THEN SummaryNamesFilters(lines[1])
           ELSE lines[1] = << >>
        /\ ExportShape(lines, 2, sorted)

\* C21, amended: whatever the page and the page size, the export of a
\* non-empty filtered set starts with a summary line naming every active
\* filter only when a filter is active and with the column header otherwise;
\* after the column header comes one line per entity of the whole filtered
\* set in the current sort order with the displayed values.
C21_ExportSummaryOnlyWhenFiltered ==
  loaded /\ filteredEntries # << >> =>
    LET sorted == filteredData
        lines == ExportLines
    IN  /\ InSortOrder(sorted)
        /\ IF hasActiveFilters
           THEN SummaryNamesFilters(lines[1]) /\ ExportShape(lines, 2, sorted)
           ELSE ExportShape(lines, 1, sorted)

\* The second page of a filtered table sorted in descending order is shown
\* while the export holds all eleven entities.
C21_Witness ==
  /\ loaded
  /\ currentPage = 2
  /\ itemsPerPage = 10
  /\ hasActiveFilters
  /\ sortDirection = "desc"
  /\ Len(paginatedData) = 1
  /\ Len(ExportLines) = 13
  /\ ExportLines[3] # ExportLines[13]

\* C22: splitting each exported data line at the commas and reading the band
\* columns at the positions the header line gives yields, for every entity
\* and band, the status the table shows, whatever name and continent the
\* entity carries.
C22_BandColumnsRoundTrip ==
  loaded /\ filteredEntries # << >> =>
    LET sorted == filteredData
        lines == ExportLines
        headerAt == IF hasActiveFilters THEN 2 ELSE 1
        header == splitOn(lines[headerAt], ",")
    IN  \A k \in 1..Len(sorted) :
          LET f == splitOn(lines[headerAt + k], ",")
          IN  \A band \in BandSet :
                LET col == CHOOSE i \in 1..Len(header) : header[i] = band
                IN  col <= Len(f) /\ f[col] = ShownStatus(sorted[k], band)
====
